---- MODULE Spec2Model ----
(***************************************************************************)
(* A model of the USBTMC kernel driver usbtmc.c (src/unnamed/part_000).    *)
(*                                                                         *)
(* State: the driver's globals (usbtmc_minors, usbtmc_buffer, the two      *)
(* last-bTag bytes), one usbtmc_device_data record per minor number, and   *)
(* for every minor the position of the call that is in flight on it.  A    *)
(* call is cut at the places where the code blocks in the USB core         *)
(* (usb_bulk_msg, usb_control_msg): one action runs the code from a call's *)
(* entry, or from the return of a transfer, up to the next transfer it     *)
(* submits or to its return statement.  The history variable wire records, *)
(* per minor, the transfers the current call has completed.                *)
(***************************************************************************)
EXTENDS Integers, Sequences, FiniteSets, TLC

(***************************************************************************)
(* Constants of usbtmc.h, of the USBTMC class and of the kernel.           *)
(***************************************************************************)
USBTMC_SIZE_IOBUFFER == 2048
\* The size of the registry of minor numbers, kept small: minor 0 is the
\* driver's own, the others are instruments.
USBTMC_MINOR_NUMBERS == 3
USBTMC_MAX_READS_TO_CLEAR_BULK_IN == 10
USBTMC_STATUS_SUCCESS == 1
USBTMC_STATUS_PENDING == 2
USBTMC_STATUS_FAILED == 129
USBTMC_ATTRIB_VAL_OFF == 0
USBTMC_ATTRIB_VAL_ON == 1
USBTMC_ATTRIB_VAL_READ == 0
USBTMC_ATTRIB_VAL_FREAD == 1
EINVAL == 22
USBTMC_REQUEST_INITIATE_ABORT_BULK_OUT == 1
USBTMC_REQUEST_CHECK_ABORT_BULK_OUT_STATUS == 2
USBTMC_REQUEST_INITIATE_ABORT_BULK_IN == 3
USBTMC_REQUEST_CHECK_ABORT_BULK_IN_STATUS == 4
USBTMC_REQUEST_INITIATE_CLEAR == 5
USBTMC_REQUEST_CHECK_CLEAR_STATUS == 6
USB_REQ_CLEAR_FEATURE == 1
USB_ENDPOINT_HALT == 0
EPERM == 1
EFAULT == 14
EPIPE == 32
ETIMEDOUT == 110
NEWLINE == 10
\* A byte of kmalloc'ed memory that nothing has written yet.
Uninit == -1

Minors == 1 .. (USBTMC_MINOR_NUMBERS - 1)

(***************************************************************************)
(* Bounds of the model.                                                    *)
(***************************************************************************)
\* Transfers recorded per call; a call that goes on after that many keeps
\* running, only its record stops growing.
MaxWire == 8

\* The messages a program frames without reading an answer.
MaxLag == 2

\* The bTag up to which a program goes on making calls.
MaxTag == 3

\* The references on the USB device up to which devices keep being attached.
MaxRef == 4

(***************************************************************************)
(* Bytes and byte arrays.  A C array is a sequence, C index i is i+1.      *)
(***************************************************************************)
Min(a, b) == IF a < b THEN a ELSE b

Zeros(n) == [i \in 1 .. n |-> 0]

Take(seq, n) == SubSeq(seq, 1, Min(n, Len(seq)))

\* seq[i] of the C code; outside the written part the byte is indeterminate.
Peek(seq, i) == IF i >= 0 /\ i < Len(seq) THEN seq[i + 1] ELSE Uninit

\* Storing bytes at offset 0 of the buffer: what lay beyond them stays.
Store(buf, bytes) == bytes \o SubSeq(buf, Len(bytes) + 1, Len(buf))

\* Storing bytes at offset off <= Len(buf).
StoreAt(buf, off, bytes) ==
  SubSeq(buf, 1, off) \o bytes \o SubSeq(buf, off + Len(bytes) + 1, Len(buf))

\* x&255, (x>>8)&255, (x>>16)&255, (x>>24)&255 of a C int.
LE32(x) ==
  << x % 256, (x \div 256) % 256, (x \div 65536) % 256, (x \div 16777216) % 256 >>

\* b[4]+(b[5]<<8)+(b[6]<<16)+(b[7]<<24)
FromLE32(b4, b5, b6, b7) == b4 + b5 * 256 + b6 * 65536 + b7 * 16777216

\* ~b stored into a u8.
InverseNegated(b) == (256 - b) % 256

Inverse(b) == 255 - b

(***************************************************************************)
(* The bTag: "Increment bTag -- and increment again if zero".              *)
(***************************************************************************)
IncrementBTagNoSkip(b) == (b + 1) % 256

IncrementBTag(b) == IF (b + 1) % 256 = 0 THEN 1 ELSE (b + 1) % 256

(***************************************************************************)
(* The state.                                                              *)
(***************************************************************************)
VARIABLES
  kernel,                  \* what the kernel keeps for the driver (see Init)
  usbtmc_minors,           \* minor -> 0 (unused) or 1 (used)
  dev,                     \* minor -> its struct usbtmc_device_data
  filp,                    \* minor -> "closed" or "open": the device file
  usbtmc_buffer,           \* the written prefix of the global I/O buffer
  usbtmc_last_write_bTag,  \* u8
  usbtmc_last_read_bTag,   \* u8
  call,                    \* minor -> the frame of the call in flight on it
  wire                     \* minor -> the transfers its current call completed

vars ==
  << kernel, usbtmc_minors, dev, filp, usbtmc_buffer, usbtmc_last_write_bTag,
     usbtmc_last_read_bTag, call, wire >>

\* The endpoints of a USBTMC interface: bulk OUT 0x02, bulk IN 0x81 and an
\* interrupt IN endpoint.
UsbtmcInterface ==
  << [bEndpointAddress |-> 2, bmAttributes |-> 2, wMaxPacketSize |-> 64],
     [bEndpointAddress |-> 129, bmAttributes |-> 2, wMaxPacketSize |-> 64],
     [bEndpointAddress |-> 131, bmAttributes |-> 3, wMaxPacketSize |-> 8] >>

HZ == 250

\* "#define USBTMC_VERSION 110"
USBTMC_VERSION == 110

USBTMC_DEFAULT_TIMEOUT == 5 * HZ

\* The memory of a minor that has no device data (or whose data was freed).
NoDevice ==
  [ devno |-> 0, intf |-> << >>, bulk_in |-> 0, bulk_out |-> 0, bTag |-> 0,
    eof |-> 0, timeout |-> 0, term_char_enabled |-> 0, term_char |-> 0,
    fread |-> 0, auto_abort |-> 0, add_nl_on_read |-> 0,
    rem_nl_on_write |-> 0 ]

NoRequest ==
  [ type |-> "none", bRequest |-> 0, wValue |-> 0, wIndex |-> 0, wLength |-> 0 ]

\* The locals of usbtmc_read, usbtmc_write and the ioctl handlers, with the
\* place (pc) where the call is blocked and, once it has returned, its
\* return value (ret).
\* History kept with them: staged (the packet as the call framed it),
\* out_tag (the bTag of the last bulk OUT header the call had sent, 0 for
\* none) and prev (op, ret and out_tag of the call made before this one).
NoCall == [ op |-> "none", ret |-> 0, out_tag |-> 0 ]

IdleFrame ==
  [ pc |-> "idle", op |-> "none", data |-> << >>, ubad |-> FALSE, count |-> 0,
    remaining |-> 0, done |-> 0, this_part |-> 0, retval |-> 0, n |-> 0,
    actual |-> 0, max_size |-> 0, staged |-> << >>, req |-> NoRequest,
    ubuf |-> << >>, ret |-> 0, out_tag |-> 0, prev |-> NoCall,
    attribute |-> "none", value |-> 0 ]

\* The frame of a call of kind op entered after the call with frame f.
NewFrame(f, op) ==
  [ IdleFrame EXCEPT
      !.op = op,
      !.prev = [ op |-> f.op, ret |-> f.ret, out_tag |-> f.out_tag ] ]

Record(w, e) == IF Len(w) < MaxWire THEN Append(w, e) ELSE w

BulkOut(ep, bytes, rv) ==
  [ kind |-> "bulk_out", ep |-> ep, bytes |-> bytes, rv |-> rv, req |-> NoRequest ]

BulkIn(ep, bytes, rv) ==
  [ kind |-> "bulk_in", ep |-> ep, bytes |-> bytes, rv |-> rv, req |-> NoRequest ]

Control(req, bytes, rv) ==
  [ kind |-> "control", ep |-> 0, bytes |-> bytes, rv |-> rv, req |-> req ]

\* kernel.refcount: the references usb_get_dev has taken on the USB device and
\* usb_put_dev has not given back; kernel.allocated: the minors whose device
\* data is kmalloc'ed and not kfree'd; kernel.cdev: the minors whose character
\* device is in the kernel's list.
Init ==
  /\ kernel = [refcount |-> 0, allocated |-> {}, cdev |-> {}]
  /\ usbtmc_minors = [m \in Minors |-> 0]
  /\ dev = [m \in Minors |-> NoDevice]
  /\ filp = [m \in Minors |-> "closed"]
  /\ usbtmc_buffer = << >>
  /\ usbtmc_last_write_bTag = 0
  /\ usbtmc_last_read_bTag = 0
  /\ call = [m \in Minors |-> IdleFrame]
  /\ wire = [m \in Minors |-> << >>]

(***************************************************************************)
(* usbtmc_probe and usbtmc_open.                                           *)
(***************************************************************************)
\* "Find the first free minor number"
\* usb_get_dev: one more reference on the USB device.
UsbGetDev(refcount) == refcount + 1

FirstFreeMinor ==
  IF \E m \in Minors : usbtmc_minors[m] = 0
    THEN CHOOSE m \in Minors :
           usbtmc_minors[m] = 0 /\ \A k \in Minors : k < m => usbtmc_minors[k] # 0
    ELSE USBTMC_MINOR_NUMBERS

\* The device data as usbtmc_probe leaves it.  auto_abort is not assigned:
\* it keeps whatever the kmalloc'ed memory held (garbage).
ProbedDevice(n, intf, garbage) ==
  [ NoDevice EXCEPT
      !.devno = n, !.intf = intf, !.bTag = 1, !.eof = 0, !.fread = 1,
      !.timeout = USBTMC_DEFAULT_TIMEOUT, !.term_char_enabled = 0,
      !.term_char = NEWLINE, !.add_nl_on_read = 0, !.rem_nl_on_write = 0,
      !.auto_abort = garbage ]

\* Lines 1516-1594.  fault says which step fails: "kmalloc", "cdev_add" or
\* "none".  When cdev_add fails the minor is already marked used (1532) and
\* devno already stored (1558) in the memory that is then freed.
usbtmc_probe(intf, garbage, fault) ==
  LET n == FirstFreeMinor IN
  /\ IF fault = "kmalloc" \/ n = USBTMC_MINOR_NUMBERS
       THEN UNCHANGED << kernel, usbtmc_minors, dev >>
     ELSE IF fault = "cdev_add"
       THEN /\ usbtmc_minors' = [usbtmc_minors EXCEPT ![n] = 1]
            /\ dev' = [dev EXCEPT ![n] = [NoDevice EXCEPT !.devno = n]]
            /\ UNCHANGED kernel
       ELSE /\ usbtmc_minors' = [usbtmc_minors EXCEPT ![n] = 1]
            /\ dev' = [dev EXCEPT ![n] = ProbedDevice(n, intf, garbage)]
            /\ kernel' = [kernel EXCEPT !.refcount = UsbGetDev(@),
                                        !.allocated = @ \cup {n},
                                        !.cdev = @ \cup {n}]
  /\ UNCHANGED << filp, usbtmc_buffer, usbtmc_last_write_bTag,
                  usbtmc_last_read_bTag, call, wire >>

\* Line 1616, "Decrease use count": the call made is usb_get_dev.
DisconnectRef(refcount) == UsbGetDev(refcount)

\* Lines 1596-1622.  The device data is freed while a file opened on it keeps
\* its pointer: the freed memory holds what it held, or anything else
\* (kept says which).
usbtmc_disconnect(s, kept) ==
  /\ s \in kernel.cdev
  /\ usbtmc_minors' = [usbtmc_minors EXCEPT ![s] = 0]
  /\ kernel' = [kernel EXCEPT !.refcount = DisconnectRef(@),
                              !.allocated = @ \ {s},
                              !.cdev = @ \ {s}]
  /\ dev' = [dev EXCEPT ![s] = IF kept THEN @ ELSE NoDevice]
  /\ UNCHANGED << filp, usbtmc_buffer, usbtmc_last_write_bTag,
                  usbtmc_last_read_bTag, call, wire >>

\* The scan of usbtmc_open: the address of the first bulk endpoint of the
\* wanted direction, 0 when there is none.
RECURSIVE FindBulk(_, _, _)
FindBulk(eps, n, in) ==
  IF n > Len(eps) THEN 0
  ELSE IF (eps[n].bEndpointAddress >= 128) = in /\ eps[n].bmAttributes % 4 = 2
    THEN eps[n].bEndpointAddress
    ELSE FindBulk(eps, n + 1, in)

usbtmc_open(s) ==
  /\ s \in kernel.cdev
  /\ usbtmc_minors[s] = 1
  /\ dev[s].devno # 0
  /\ filp[s] = "closed"
  /\ filp' = [filp EXCEPT ![s] = "open"]
  /\ dev' = [dev EXCEPT ![s].bulk_in = FindBulk(dev[s].intf, 1, TRUE),
                        ![s].bulk_out = FindBulk(dev[s].intf, 1, FALSE)]
  /\ UNCHANGED << kernel, usbtmc_minors, usbtmc_buffer, usbtmc_last_write_bTag,
                  usbtmc_last_read_bTag, call, wire >>

\* A call can be made on s: its file is open and no call is in flight on it.
Callable(s) == filp[s] = "open" /\ call[s].pc \in {"idle", "returned"}

\* Lines 201-211: closing an instrument's file does nothing to the driver.
usbtmc_release(s) ==
  /\ Callable(s)
  /\ filp' = [filp EXCEPT ![s] = "closed"]
  /\ UNCHANGED << kernel, usbtmc_minors, dev, usbtmc_buffer,
                  usbtmc_last_write_bTag, usbtmc_last_read_bTag, call, wire >>

Return(f, rv) == [f EXCEPT !.pc = "returned", !.ret = rv]

\* "if(p_device_data->auto_abort)" of usbtmc_read and usbtmc_write.
AutoAbortAlways(d) == TRUE

AutoAbort(d) == d.auto_abort # 0

(***************************************************************************)
(* usbtmc_ioctl_abort_bulk_out.  It is entered from the ioctl and, with    *)
(* auto_abort set, from usbtmc_read and usbtmc_write (op tells which):     *)
(* those return their own retval whatever the abort returns.               *)
(***************************************************************************)
Finish(f, rv) ==
  Return(f, IF f.op \in {"read", "write"} THEN f.retval ELSE rv)

ClassEndpointRequest(bRequest, wValue, wIndex, wLength) ==
  [ type |-> "class_endpoint", bRequest |-> bRequest, wValue |-> wValue,
    wIndex |-> wIndex, wLength |-> wLength ]

ClearHaltRequest(ep) ==
  [ type |-> "standard_endpoint", bRequest |-> USB_REQ_CLEAR_FEATURE,
    wValue |-> USB_ENDPOINT_HALT, wIndex |-> ep, wLength |-> 0 ]

\* The wValue of INITIATE_ABORT_BULK_OUT, given the last write bTag.
AbortBulkOutTagOff(last) == IncrementBTag(last)

AbortBulkOutTag(last) == last

\* Lines 736-746: the frame blocked in the INITIATE_ABORT_BULK_OUT request.
AbortBulkOutEnter(d, f, last) ==
  [ f EXCEPT
      !.pc = "abort_bulk_out_initiate",
      !.req = ClassEndpointRequest(USBTMC_REQUEST_INITIATE_ABORT_BULK_OUT,
                                   AbortBulkOutTag(last), d.bulk_out, 2) ]

CheckAbortBulkOutRequest(d) ==
  ClassEndpointRequest(USBTMC_REQUEST_CHECK_ABORT_BULK_OUT_STATUS, 0,
                       d.bulk_out, 8)

\* Lines 748-780: INITIATE_ABORT_BULK_OUT has returned rv, with data.
abort_bulk_out_initiate_return(s, rv, data) ==
  LET f == call[s]
      buf == IF rv < 0 THEN usbtmc_buffer ELSE Store(usbtmc_buffer, data)
  IN
  /\ f.pc = "abort_bulk_out_initiate"
  /\ rv < 0 => data = << >>
  /\ rv >= 0 => Len(data) = f.req.wLength
  /\ wire' = [wire EXCEPT ![s] = Record(@, Control(f.req, data, rv))]
  /\ usbtmc_buffer' = buf
  /\ call' = [call EXCEPT ![s] =
       IF rv < 0 THEN Finish(f, rv)
       ELSE IF Peek(buf, 0) # USBTMC_STATUS_SUCCESS THEN Finish(f, -EPERM)
       ELSE [f EXCEPT !.pc = "abort_bulk_out_check", !.n = 0,
                      !.req = CheckAbortBulkOutRequest(dev[s])]]
  /\ UNCHANGED << kernel, usbtmc_minors, dev, filp, usbtmc_last_write_bTag,
                  usbtmc_last_read_bTag >>

\* "(usbtmc_buffer[0]==USBTMC_STATUS_PENDING)&&(n<MAX_READS)": poll again.
AbortBulkOutPollsForever(status, n) == status = USBTMC_STATUS_PENDING

AbortBulkOutPollsAgain(status, n) ==
  status = USBTMC_STATUS_PENDING /\ n < USBTMC_MAX_READS_TO_CLEAR_BULK_IN

\* Lines 782-817: CHECK_ABORT_BULK_OUT_STATUS has returned.
abort_bulk_out_check_return(s, rv, data) ==
  LET f == call[s]
      buf == IF rv < 0 THEN usbtmc_buffer ELSE Store(usbtmc_buffer, data)
      n == f.n + 1
  IN
  /\ f.pc = "abort_bulk_out_check"
  /\ rv < 0 => data = << >>
  /\ rv >= 0 => Len(data) = f.req.wLength
  /\ wire' = [wire EXCEPT ![s] = Record(@, Control(f.req, data, rv))]
  /\ usbtmc_buffer' = buf
  /\ call' = [call EXCEPT ![s] =
       IF rv < 0 THEN Finish([f EXCEPT !.n = n], rv)
       ELSE IF Peek(buf, 0) = USBTMC_STATUS_SUCCESS
         THEN [f EXCEPT !.pc = "abort_bulk_out_clear_halt", !.n = n,
                        !.req = ClearHaltRequest(dev[s].bulk_out)]
       ELSE IF AbortBulkOutPollsAgain(Peek(buf, 0), n)
         THEN [f EXCEPT !.n = n]
       ELSE Finish([f EXCEPT !.n = n], -EPERM)]
  /\ UNCHANGED << kernel, usbtmc_minors, dev, filp, usbtmc_last_write_bTag,
                  usbtmc_last_read_bTag >>

\* Lines 819-824: the CLEAR_FEATURE request has returned.
abort_bulk_out_clear_halt_return(s, rv) ==
  LET f == call[s] IN
  /\ f.pc = "abort_bulk_out_clear_halt"
  /\ wire' = [wire EXCEPT ![s] = Record(@, Control(f.req, << >>, rv))]
  /\ call' = [call EXCEPT ![s] = IF rv < 0 THEN Finish(f, rv) ELSE Finish(f, 0)]
  /\ UNCHANGED << kernel, usbtmc_minors, dev, filp, usbtmc_buffer,
                  usbtmc_last_write_bTag, usbtmc_last_read_bTag >>

(***************************************************************************)
(* usbtmc_ioctl_abort_bulk_in.                                             *)
(***************************************************************************)
\* Lines 561-571: the frame blocked in the INITIATE_ABORT_BULK_IN request.
AbortBulkInEnter(d, f, last) ==
  [ f EXCEPT
      !.pc = "abort_bulk_in_initiate",
      !.req = ClassEndpointRequest(USBTMC_REQUEST_INITIATE_ABORT_BULK_IN,
                                   last, d.bulk_in, 2) ]

\* Lines 597-604: wMaxPacketSize of the endpoint whose address is bulk_in
\* (the last such endpoint), 0 when there is none.
RECURSIVE MaxPacketSize(_, _, _, _)
MaxPacketSize(eps, n, bulk_in, max_size) ==
  IF n > Len(eps) THEN max_size
  ELSE MaxPacketSize(eps, n + 1, bulk_in,
         IF eps[n].bEndpointAddress = bulk_in THEN eps[n].wMaxPacketSize
         ELSE max_size)

CheckAbortBulkInRequest(d) ==
  ClassEndpointRequest(USBTMC_REQUEST_CHECK_ABORT_BULK_IN_STATUS, 0,
                       d.bulk_in, 8)

\* Lines 583-586: "if(usbtmc_buffer[0]==USBTMC_STATUS_FAILED) return 0": no
\* transfer is in progress and the bulk IN FIFO is empty.
AbortBulkInEmptyNever(status) == FALSE

AbortBulkInEmpty(status) == status = USBTMC_STATUS_FAILED

\* Lines 573-630: INITIATE_ABORT_BULK_IN has returned rv, with data.
abort_bulk_in_initiate_return(s, rv, data) ==
  LET f == call[s]
      buf == IF rv < 0 THEN usbtmc_buffer ELSE Store(usbtmc_buffer, data)
      max_size == MaxPacketSize(dev[s].intf, 1, dev[s].bulk_in, 0)
  IN
  /\ f.pc = "abort_bulk_in_initiate"
  /\ rv < 0 => data = << >>
  /\ rv >= 0 => Len(data) = f.req.wLength
  /\ wire' = [wire EXCEPT ![s] = Record(@, Control(f.req, data, rv))]
  /\ usbtmc_buffer' = buf
  /\ call' = [call EXCEPT ![s] =
       IF rv < 0 THEN Finish(f, rv)
       ELSE IF AbortBulkInEmpty(Peek(buf, 0)) THEN Finish(f, 0)
       ELSE IF Peek(buf, 0) # USBTMC_STATUS_SUCCESS THEN Finish(f, -EPERM)
       ELSE IF max_size = 0 THEN Finish([f EXCEPT !.max_size = 0], -EPERM)
       ELSE [f EXCEPT !.pc = "abort_bulk_in_drain", !.n = 0,
                      !.max_size = max_size, !.req = NoRequest]]
  /\ UNCHANGED << kernel, usbtmc_minors, dev, filp, usbtmc_last_write_bTag,
                  usbtmc_last_read_bTag >>

\* Line 639: "while ((actual==max_size)&&(n<MAX_READS))": read again.
DrainReadsAgain(actual, max_size, n) ==
  actual = max_size /\ n < USBTMC_MAX_READS_TO_CLEAR_BULK_IN

\* Lines 632-662: a bulk read of the first drain has returned.
abort_bulk_in_drain_return(s, rv, data) ==
  LET f == call[s]
      n == f.n + 1
      actual == Len(data)
      g == [f EXCEPT !.n = n, !.actual = actual]
  IN
  /\ f.pc = "abort_bulk_in_drain"
  /\ Len(data) <= USBTMC_SIZE_IOBUFFER
  /\ wire' = [wire EXCEPT ![s] = Record(@, BulkIn(dev[s].bulk_in, data, rv))]
  /\ usbtmc_buffer' = Store(usbtmc_buffer, data)
  /\ call' = [call EXCEPT ![s] =
       IF rv < 0 THEN Finish(g, rv)
       ELSE IF DrainReadsAgain(actual, f.max_size, n) THEN g
       ELSE IF actual = f.max_size THEN Finish(g, -EPERM)
       ELSE [g EXCEPT !.pc = "abort_bulk_in_check", !.n = 0,
                      !.req = CheckAbortBulkInRequest(dev[s])]]
  /\ UNCHANGED << kernel, usbtmc_minors, dev, filp, usbtmc_last_write_bTag,
                  usbtmc_last_read_bTag >>

\* Line 685: "if(usbtmc_buffer[1]==1)": there is data to read off.
DataToRead(second) == second = 1

\* Lines 664-699 and 710-718: CHECK_ABORT_BULK_IN_STATUS has returned.
abort_bulk_in_check_return(s, rv, data) ==
  LET f == call[s]
      buf == IF rv < 0 THEN usbtmc_buffer ELSE Store(usbtmc_buffer, data)
  IN
  /\ f.pc = "abort_bulk_in_check"
  /\ rv < 0 => data = << >>
  /\ rv >= 0 => Len(data) = f.req.wLength
  /\ wire' = [wire EXCEPT ![s] = Record(@, Control(f.req, data, rv))]
  /\ usbtmc_buffer' = buf
  /\ call' = [call EXCEPT ![s] =
       IF rv < 0 THEN Finish(f, rv)
       ELSE IF Peek(buf, 0) = USBTMC_STATUS_SUCCESS THEN Finish(f, 0)
       ELSE IF Peek(buf, 0) # USBTMC_STATUS_PENDING THEN Finish(f, -EPERM)
       ELSE IF DataToRead(Peek(buf, 1))
         THEN [f EXCEPT !.pc = "abort_bulk_in_drain_again", !.req = NoRequest]
       ELSE IF f.actual = f.max_size THEN Finish(f, -EPERM)
       ELSE f]
  /\ UNCHANGED << kernel, usbtmc_minors, dev, filp, usbtmc_last_write_bTag,
                  usbtmc_last_read_bTag >>

\* Line 708: "while ((actual=max_size)&&(n<MAX_READS))": actual is assigned
\* max_size, and the value assigned is the first operand of the &&.
DrainAgainReadsAgain(max_size, n) ==
  max_size # 0 /\ n < USBTMC_MAX_READS_TO_CLEAR_BULK_IN

\* Lines 701-718: a bulk read of a drain entered after PENDING has returned.
abort_bulk_in_drain_again_return(s, rv, data) ==
  LET f == call[s]
      n == f.n + 1
      g == [f EXCEPT !.n = n, !.actual = Len(data)]
      h == [g EXCEPT !.actual = f.max_size]
  IN
  /\ f.pc = "abort_bulk_in_drain_again"
  /\ Len(data) <= USBTMC_SIZE_IOBUFFER
  /\ wire' = [wire EXCEPT ![s] = Record(@, BulkIn(dev[s].bulk_in, data, rv))]
  /\ usbtmc_buffer' = Store(usbtmc_buffer, data)
  /\ call' = [call EXCEPT ![s] =
       IF rv < 0 THEN Finish(g, rv)
       ELSE IF DrainAgainReadsAgain(f.max_size, n) THEN h
       ELSE IF h.actual = f.max_size THEN Finish(h, -EPERM)
       ELSE [h EXCEPT !.pc = "abort_bulk_in_check",
                      !.req = CheckAbortBulkInRequest(dev[s])]]
  /\ UNCHANGED << kernel, usbtmc_minors, dev, filp, usbtmc_last_write_bTag,
                  usbtmc_last_read_bTag >>

\* usbtmc_ioctl, cases USBTMC_IOCTL_ABORT_BULK_OUT and _IN (lines 1460-1464).
usbtmc_ioctl_abort_bulk_out(s) ==
  /\ Callable(s)
  /\ call' = [call EXCEPT ![s] =
       AbortBulkOutEnter(dev[s], NewFrame(call[s], "abort_bulk_out"),
                         usbtmc_last_write_bTag)]
  /\ wire' = [wire EXCEPT ![s] = << >>]
  /\ UNCHANGED << kernel, usbtmc_minors, dev, filp, usbtmc_buffer,
                  usbtmc_last_write_bTag, usbtmc_last_read_bTag >>

usbtmc_ioctl_abort_bulk_in(s) ==
  /\ Callable(s)
  /\ call' = [call EXCEPT ![s] =
       AbortBulkInEnter(dev[s], NewFrame(call[s], "abort_bulk_in"),
                        usbtmc_last_read_bTag)]
  /\ wire' = [wire EXCEPT ![s] = << >>]
  /\ UNCHANGED << kernel, usbtmc_minors, dev, filp, usbtmc_buffer,
                  usbtmc_last_write_bTag, usbtmc_last_read_bTag >>

(***************************************************************************)
(* usbtmc_ioctl_clear.                                                     *)
(***************************************************************************)
ClassInterfaceRequest(bRequest, wLength) ==
  [ type |-> "class_interface", bRequest |-> bRequest, wValue |-> 0,
    wIndex |-> 0, wLength |-> wLength ]

\* usbtmc_ioctl, case USBTMC_IOCTL_CLEAR, and lines 835-860: the frame
\* blocked in the INITIATE_CLEAR request.  The local "int actual" has no
\* initial value: it holds what the stack held (garbage).
usbtmc_ioctl_clear(s, garbage) ==
  /\ Callable(s)
  /\ call' = [call EXCEPT ![s] =
       [ NewFrame(call[s], "clear") EXCEPT
           !.pc = "clear_initiate",
           !.actual = garbage,
           !.req = ClassInterfaceRequest(USBTMC_REQUEST_INITIATE_CLEAR, 1) ]]
  /\ wire' = [wire EXCEPT ![s] = << >>]
  /\ UNCHANGED << kernel, usbtmc_minors, dev, filp, usbtmc_buffer,
                  usbtmc_last_write_bTag, usbtmc_last_read_bTag >>

\* Lines 862-914: INITIATE_CLEAR has returned rv, with data.
clear_initiate_return(s, rv, data) ==
  LET f == call[s]
      buf == IF rv < 0 THEN usbtmc_buffer ELSE Store(usbtmc_buffer, data)
      max_size == MaxPacketSize(dev[s].intf, 1, dev[s].bulk_in, 0)
  IN
  /\ f.pc = "clear_initiate"
  /\ rv < 0 => data = << >>
  /\ rv >= 0 => Len(data) = f.req.wLength
  /\ wire' = [wire EXCEPT ![s] = Record(@, Control(f.req, data, rv))]
  /\ usbtmc_buffer' = buf
  /\ call' = [call EXCEPT ![s] =
       IF rv < 0 THEN Return(f, rv)
       ELSE IF Peek(buf, 0) # USBTMC_STATUS_SUCCESS THEN Return(f, -EPERM)
       ELSE IF max_size = 0 THEN Return([f EXCEPT !.max_size = 0], -EPERM)
       ELSE [f EXCEPT !.pc = "clear_check", !.n = 0, !.max_size = max_size,
                      !.req = ClassInterfaceRequest(
                                USBTMC_REQUEST_CHECK_CLEAR_STATUS, 2)]]
  /\ UNCHANGED << kernel, usbtmc_minors, dev, filp, usbtmc_last_write_bTag,
                  usbtmc_last_read_bTag >>

\* Lines 916-954 and 965-987: CHECK_CLEAR_STATUS has returned.  The test
\* "if(actual==max_size)" of line 965 follows the drain whether or not the
\* drain was entered.
clear_check_return(s, rv, data) ==
  LET f == call[s]
      buf == IF rv < 0 THEN usbtmc_buffer ELSE Store(usbtmc_buffer, data)
  IN
  /\ f.pc = "clear_check"
  /\ rv < 0 => data = << >>
  /\ rv >= 0 => Len(data) = f.req.wLength
  /\ wire' = [wire EXCEPT ![s] = Record(@, Control(f.req, data, rv))]
  /\ usbtmc_buffer' = buf
  /\ call' = [call EXCEPT ![s] =
       IF rv < 0 THEN Return(f, rv)
       ELSE IF Peek(buf, 0) = USBTMC_STATUS_SUCCESS
         THEN [f EXCEPT !.pc = "clear_bulk_out_halt",
                        !.req = ClearHaltRequest(dev[s].bulk_out)]
       ELSE IF Peek(buf, 0) # USBTMC_STATUS_PENDING THEN Return(f, -EPERM)
       ELSE IF DataToRead(Peek(buf, 1))
         THEN [f EXCEPT !.pc = "clear_drain", !.req = NoRequest]
       ELSE IF f.actual = f.max_size THEN Return(f, -EPERM)
       ELSE f]
  /\ UNCHANGED << kernel, usbtmc_minors, dev, filp, usbtmc_last_write_bTag,
                  usbtmc_last_read_bTag >>

\* Lines 956-973: a bulk read of the drain has returned.
clear_drain_return(s, rv, data) ==
  LET f == call[s]
      n == f.n + 1
      actual == Len(data)
      g == [f EXCEPT !.n = n, !.actual = actual]
  IN
  /\ f.pc = "clear_drain"
  /\ Len(data) <= USBTMC_SIZE_IOBUFFER
  /\ wire' = [wire EXCEPT ![s] = Record(@, BulkIn(dev[s].bulk_in, data, rv))]
  /\ usbtmc_buffer' = Store(usbtmc_buffer, data)
  /\ call' = [call EXCEPT ![s] =
       IF rv < 0 THEN Return(g, rv)
       ELSE IF DrainReadsAgain(actual, f.max_size, n) THEN g
       ELSE IF actual = f.max_size THEN Return(g, -EPERM)
       ELSE [g EXCEPT !.pc = "clear_check",
                      !.req = ClassInterfaceRequest(
                                USBTMC_REQUEST_CHECK_CLEAR_STATUS, 2)]]
  /\ UNCHANGED << kernel, usbtmc_minors, dev, filp, usbtmc_last_write_bTag,
                  usbtmc_last_read_bTag >>

\* Lines 989-994: the CLEAR_FEATURE request has returned.
clear_bulk_out_halt_return(s, rv) ==
  LET f == call[s] IN
  /\ f.pc = "clear_bulk_out_halt"
  /\ wire' = [wire EXCEPT ![s] = Record(@, Control(f.req, << >>, rv))]
  /\ call' = [call EXCEPT ![s] = IF rv < 0 THEN Return(f, rv) ELSE Return(f, 0)]
  /\ UNCHANGED << kernel, usbtmc_minors, dev, filp, usbtmc_buffer,
                  usbtmc_last_write_bTag, usbtmc_last_read_bTag >>

(***************************************************************************)
(* usbtmc_write.                                                           *)
(***************************************************************************)
\* Lines 460-469: this_part and usbtmc_buffer[8] from remaining.
WriteThisPart(remaining) ==
  IF remaining > USBTMC_SIZE_IOBUFFER - 12
    THEN USBTMC_SIZE_IOBUFFER - 12
    ELSE remaining

WriteEOMAlways(remaining) == 1

WriteEOM(remaining) ==
  IF remaining > USBTMC_SIZE_IOBUFFER - 12 THEN 0 ELSE 1

\* Lines 472-483: the DEV_DEP_MSG_OUT header.
WriteHeader(bTag, this_part, eom) ==
  << 1, bTag, Inverse(bTag), 0 >> \o LE32(this_part) \o << eom, 0, 0, 0 >>

\* Lines 491-499: this_part after the newline is removed.
WriteTrim(buf, this_part, remaining, rem_nl_on_write) ==
  IF /\ this_part = remaining
     /\ rem_nl_on_write = USBTMC_ATTRIB_VAL_ON
     /\ Peek(buf, 12 + this_part - 1) = NEWLINE
    THEN this_part - 1
    ELSE this_part

\* Lines 502-506: n_bytes, with the zero bytes that align the packet.
WriteNBytesUnaligned(this_part) == 12 + this_part

WriteNBytes(this_part) ==
  IF this_part % 4 # 0 THEN 12 + this_part + (4 - (this_part % 4))
  ELSE 12 + this_part

\* Lines 458-513 and 535: the loop from its test to the next usb_bulk_msg
\* or to the return.  Gives the frame and the buffer.
WriteLoop(d, f, buf) ==
  IF f.remaining > 0 THEN
    LET part == WriteThisPart(f.remaining)
        header == WriteHeader(d.bTag, part, WriteEOM(f.remaining))
        copied == Store(buf, header \o SubSeq(f.data, f.done + 1, f.done + part))
        this_part == WriteTrim(copied, part, f.remaining, d.rem_nl_on_write)
        n_bytes == WriteNBytes(this_part)
        padded == StoreAt(copied, 12 + this_part, Zeros(n_bytes - 12 - this_part))
    IN
    IF f.ubad
      THEN [frame |-> Return(f, -EFAULT), buffer |-> Store(buf, header)]
      ELSE [frame |-> [f EXCEPT !.pc = "write_bulk_out", !.this_part = this_part,
                                !.staged = Take(padded, n_bytes)],
            buffer |-> padded]
  ELSE [frame |-> Return(f, f.count), buffer |-> buf]

\* Line 453: "p_device_data->eof=0".
WriteEofKept(eof) == eof

WriteEof(eof) == 0

\* Lines 449-513: the call, up to its first usb_bulk_msg.
usbtmc_write(s, data, ubad) ==
  LET f == [NewFrame(call[s], "write") EXCEPT
              !.data = data, !.ubad = ubad, !.count = Len(data),
              !.remaining = Len(data)]
      d == [dev[s] EXCEPT !.eof = WriteEof(@)]
      r == WriteLoop(d, f, usbtmc_buffer)
  IN
  /\ Callable(s)
  /\ dev[s].devno # 0
  /\ dev' = [dev EXCEPT ![s] = d]
  /\ call' = [call EXCEPT ![s] = r.frame]
  /\ usbtmc_buffer' = r.buffer
  /\ wire' = [wire EXCEPT ![s] = << >>]
  /\ UNCHANGED << kernel, usbtmc_minors, filp, usbtmc_last_write_bTag,
                  usbtmc_last_read_bTag >>

\* Lines 515-535: usb_bulk_msg has returned retval.  The bytes the host
\* controller sent are those of the buffer while the transfer was pending.
write_bulk_out_return(s, retval) ==
  LET f == call[s]
      d == [dev[s] EXCEPT !.bTag = IncrementBTag(dev[s].bTag)]
      last == dev[s].bTag
      g == [f EXCEPT !.retval = retval, !.out_tag = f.staged[2]]
      r == WriteLoop(d, [g EXCEPT !.remaining = f.remaining - f.this_part,
                                  !.done = f.done + f.this_part],
                     usbtmc_buffer)
  IN
  /\ f.pc = "write_bulk_out"
  /\ \E sent \in {f.staged, Take(usbtmc_buffer, Len(f.staged))} :
       wire' = [wire EXCEPT ![s] = Record(@, BulkOut(dev[s].bulk_out, sent, retval))]
  /\ usbtmc_last_write_bTag' = last
  /\ dev' = [dev EXCEPT ![s] = d]
  /\ IF retval < 0
       THEN /\ call' = [call EXCEPT ![s] =
                 IF AutoAbort(d) THEN AbortBulkOutEnter(d, g, last)
                 ELSE Return(g, retval)]
            /\ UNCHANGED usbtmc_buffer
       ELSE /\ call' = [call EXCEPT ![s] = r.frame]
            /\ usbtmc_buffer' = r.buffer
  /\ UNCHANGED << kernel, usbtmc_minors, filp, usbtmc_last_read_bTag >>

(***************************************************************************)
(* usbtmc_read, on an instrument's minor number.                           *)
(***************************************************************************)
\* Lines 278-283.
ReadThisPartUncapped(remaining) == remaining

ReadThisPart(remaining) ==
  IF remaining > USBTMC_SIZE_IOBUFFER - 12 - 3
    THEN USBTMC_SIZE_IOBUFFER - 12 - 3
    ELSE remaining

\* Lines 286-298: the REQUEST_DEV_DEP_MSG_IN header.  (this_part-12-3) is a
\* C int, negative for this_part < 15: its bytes are those of the two's
\* complement, which \div (rounding down) and % give.
ReadHeaderOffTag(d, this_part) ==
  << 2, IncrementBTag(d.bTag), Inverse(IncrementBTag(d.bTag)), 0 >>
    \o LE32(this_part - 12 - 3)
    \o << (d.term_char_enabled * 2) % 256, d.term_char, 0, 0 >>

ReadHeader(d, this_part) ==
  << 2, d.bTag, Inverse(d.bTag), 0 >>
    \o LE32(this_part - 12 - 3)
    \o << (d.term_char_enabled * 2) % 256, d.term_char, 0, 0 >>

\* Lines 357-359: a newline is added.
AddsNewlineAlways(add_nl_on_read, done, count) ==
  add_nl_on_read = USBTMC_ATTRIB_VAL_ON

AddsNewline(add_nl_on_read, done, count) ==
  add_nl_on_read = USBTMC_ATTRIB_VAL_ON /\ done < count

\* Lines 357-377: after the loop.  Gives the frame, the buffer and eof.
ReadTail(d, f, buf) ==
  LET add == AddsNewline(d.add_nl_on_read, f.done, f.count)
      b == IF add THEN Store(buf, << NEWLINE >>) ELSE buf
      done == IF add THEN f.done + 1 ELSE f.done
  IN
  IF add /\ f.ubad
    THEN [frame |-> Return(f, -EFAULT), buffer |-> b, eof |-> d.eof]
    ELSE [frame |-> Return([f EXCEPT !.done = done,
                              !.ubuf = IF add THEN Append(@, NEWLINE) ELSE @],
                           done),
          buffer |-> b,
          eof |-> IF done < f.count THEN 1 ELSE d.eof]

\* Lines 276-305: the loop from its test to the usb_bulk_msg that sends the
\* request, or to the return.
ReadLoop(d, f, buf) ==
  IF f.remaining > 0 THEN
    LET this_part == ReadThisPart(f.remaining)
        header == ReadHeader(d, this_part)
    IN [frame |-> [f EXCEPT !.pc = "read_bulk_out", !.this_part = this_part,
                            !.staged = header],
        buffer |-> Store(buf, header),
        eof |-> d.eof]
  ELSE ReadTail(d, f, buf)

\* Line 266: "if((p_device_data->fread)&&(p_device_data->eof))".
ReadAtEofNever(fread, eof) == FALSE

ReadAtEofAnyMode(fread, eof) == eof # 0

ReadAtEof(fread, eof) == fread # 0 /\ eof # 0

\* Lines 262-305: the call, up to its first usb_bulk_msg.
usbtmc_read(s, count, ubad) ==
  LET f == [NewFrame(call[s], "read") EXCEPT
              !.ubad = ubad, !.count = count, !.remaining = count]
      r == ReadLoop(dev[s], f, usbtmc_buffer)
  IN
  /\ Callable(s)
  /\ dev[s].devno # 0
  /\ wire' = [wire EXCEPT ![s] = << >>]
  /\ IF ReadAtEof(dev[s].fread, dev[s].eof)
       THEN /\ dev' = [dev EXCEPT ![s].eof = 0]
            /\ call' = [call EXCEPT ![s] = Return(f, 0)]
            /\ UNCHANGED usbtmc_buffer
       ELSE /\ dev' = [dev EXCEPT ![s].eof = r.eof]
            /\ call' = [call EXCEPT ![s] = r.frame]
            /\ usbtmc_buffer' = r.buffer
  /\ UNCHANGED << kernel, usbtmc_minors, filp, usbtmc_last_write_bTag,
                  usbtmc_last_read_bTag >>

\* Lines 307-328: the usb_bulk_msg that sent the request has returned.
read_bulk_out_return(s, retval) ==
  LET f == call[s]
      d == [dev[s] EXCEPT !.bTag = IncrementBTag(dev[s].bTag)]
      last == dev[s].bTag
      g == [f EXCEPT !.retval = retval, !.out_tag = f.staged[2]]
  IN
  /\ f.pc = "read_bulk_out"
  /\ \E sent \in {f.staged, Take(usbtmc_buffer, Len(f.staged))} :
       wire' = [wire EXCEPT ![s] = Record(@, BulkOut(dev[s].bulk_out, sent, retval))]
  /\ usbtmc_last_write_bTag' = last
  /\ dev' = [dev EXCEPT ![s] = d]
  /\ call' = [call EXCEPT ![s] =
       IF retval < 0
         THEN IF AutoAbort(d) THEN AbortBulkOutEnter(d, g, last)
              ELSE Return(g, retval)
         ELSE [g EXCEPT !.pc = "read_bulk_in"]]
  /\ UNCHANGED << kernel, usbtmc_minors, filp, usbtmc_buffer, usbtmc_last_read_bTag >>

\* Lines 331: the bTag stored "in case we need to abort".
LastReadBTag(d) == d.bTag

\* Lines 342-345.
NCharacters(buf) ==
  FromLE32(Peek(buf, 4) % 256, Peek(buf, 5) % 256, Peek(buf, 6) % 256,
           Peek(buf, 7) % 256)

\* Line 354: "if(n_characters<USBTMC_SIZE_IOBUFFER) remaining=0".
ReadRemainingKept(remaining, n_characters) == remaining

ReadRemaining(remaining, n_characters) ==
  IF n_characters < USBTMC_SIZE_IOBUFFER THEN 0 ELSE remaining

\* Lines 331-377: the usb_bulk_msg that read the answer has returned retval,
\* with data in the buffer.  copy_to_user fails on a bad address when there
\* is something to copy.
read_bulk_in_return(s, retval, data) ==
  LET f == call[s]
      d == dev[s]
      buf == Store(usbtmc_buffer, data)
      last == LastReadBTag(d)
      g == [f EXCEPT !.retval = retval, !.actual = Len(data)]
      n_characters == NCharacters(buf)
      h == [g EXCEPT
              !.ubuf = @ \o [i \in 1 .. n_characters |-> Peek(buf, 12 + i - 1)],
              !.done = @ + n_characters,
              !.remaining = ReadRemaining(@, n_characters)]
      r == ReadLoop(d, h, buf)
  IN
  /\ f.pc = "read_bulk_in"
  /\ Len(data) <= USBTMC_SIZE_IOBUFFER
  /\ wire' = [wire EXCEPT ![s] = Record(@, BulkIn(d.bulk_in, data, retval))]
  /\ usbtmc_last_read_bTag' = last
  /\ IF retval < 0
       THEN /\ call' = [call EXCEPT ![s] =
                 IF AutoAbort(d) THEN AbortBulkInEnter(d, g, last)
                 ELSE Return(g, retval)]
            /\ usbtmc_buffer' = buf
            /\ UNCHANGED dev
       ELSE IF f.ubad /\ n_characters > 0
         THEN /\ call' = [call EXCEPT ![s] = Return(g, -EFAULT)]
              /\ usbtmc_buffer' = buf
              /\ UNCHANGED dev
         ELSE /\ call' = [call EXCEPT ![s] = r.frame]
              /\ usbtmc_buffer' = r.buffer
              /\ dev' = [dev EXCEPT ![s].eof = r.eof]
  /\ UNCHANGED << kernel, usbtmc_minors, filp, usbtmc_last_write_bTag >>

(***************************************************************************)
(* usbtmc_ioctl_set_attribute, for the attributes that are flags.          *)
(***************************************************************************)
IsOnOffAny(value) == TRUE

IsOnOff(value) == value \in {USBTMC_ATTRIB_VAL_ON, USBTMC_ATTRIB_VAL_OFF}

\* Lines 1009-1077: the checks of the switch; FALSE is "return -EINVAL".
SetAttributeAccepts(attribute, value) ==
  CASE attribute = "AUTO_ABORT_ON_ERROR" -> IsOnOff(value)
    [] attribute = "READ_MODE" ->
         value \in {USBTMC_ATTRIB_VAL_FREAD, USBTMC_ATTRIB_VAL_READ}
    [] attribute = "TIMEOUT" -> ~(value < 0)
    [] attribute = "TERM_CHAR_ENABLED" -> IsOnOff(value)
    [] attribute = "TERM_CHAR" -> ~(value < 0 \/ value > 255)
    [] attribute = "ADD_NL_ON_READ" -> IsOnOff(value)
    [] attribute = "REM_NL_ON_WRITE" -> IsOnOff(value)
    [] OTHER -> FALSE

\* Lines 1009-1077: the assignment of the switch.
SetAttributeCrossed(d, attribute, value) ==
  CASE attribute = "AUTO_ABORT_ON_ERROR" -> [d EXCEPT !.auto_abort = value]
    [] attribute = "READ_MODE" -> [d EXCEPT !.add_nl_on_read = value]
    [] attribute = "TIMEOUT" -> [d EXCEPT !.timeout = (value \div 1000) * HZ]
    [] attribute = "TERM_CHAR_ENABLED" -> [d EXCEPT !.term_char_enabled = value]
    [] attribute = "TERM_CHAR" -> [d EXCEPT !.term_char = value]
    [] attribute = "ADD_NL_ON_READ" -> [d EXCEPT !.add_nl_on_read = value]
    [] attribute = "REM_NL_ON_WRITE" -> [d EXCEPT !.rem_nl_on_write = value]
    [] OTHER -> d

SetAttribute(d, attribute, value) ==
  CASE attribute = "AUTO_ABORT_ON_ERROR" -> [d EXCEPT !.auto_abort = value]
    [] attribute = "READ_MODE" -> [d EXCEPT !.fread = value]
    [] attribute = "TIMEOUT" -> [d EXCEPT !.timeout = (value \div 1000) * HZ]
    [] attribute = "TERM_CHAR_ENABLED" -> [d EXCEPT !.term_char_enabled = value]
    [] attribute = "TERM_CHAR" -> [d EXCEPT !.term_char = value]
    [] attribute = "ADD_NL_ON_READ" -> [d EXCEPT !.add_nl_on_read = value]
    [] attribute = "REM_NL_ON_WRITE" -> [d EXCEPT !.rem_nl_on_write = value]
    [] OTHER -> d

usbtmc_ioctl_set_attribute(s, attribute, value) ==
  LET ok == SetAttributeAccepts(attribute, value)
      f == [NewFrame(call[s], "set_attribute") EXCEPT
              !.attribute = attribute, !.value = value]
  IN
  /\ Callable(s)
  /\ dev' = [dev EXCEPT ![s] = IF ok THEN SetAttribute(@, attribute, value) ELSE @]
  /\ call' = [call EXCEPT ![s] = Return(f, IF ok THEN 0 ELSE -EINVAL)]
  /\ wire' = [wire EXCEPT ![s] = << >>]
  /\ UNCHANGED << kernel, usbtmc_minors, filp, usbtmc_buffer, usbtmc_last_write_bTag,
                  usbtmc_last_read_bTag >>

\* Lines 1096-1169: the attributes usbtmc_ioctl_get_attribute knows.
GetAttributeAccepts(attribute) ==
  attribute \in
    {"AUTO_ABORT_ON_ERROR", "READ_MODE", "TIMEOUT", "NUM_INSTRUMENTS",
     "MINOR_NUMBERS", "SIZE_IO_BUFFER", "DEFAULT_TIMEOUT", "DEBUG_MODE",
     "VERSION", "TERM_CHAR_ENABLED", "TERM_CHAR", "ADD_NL_ON_READ",
     "REM_NL_ON_WRITE"}

\* Lines 1106-1108: "p_device_data->timeout/HZ*1000".
GetTimeout(timeout) == (timeout \div HZ) * 1000

\* Lines 1096-1169: the value of the switch.
GetAttribute(d, attribute) ==
  CASE attribute = "AUTO_ABORT_ON_ERROR" -> d.auto_abort
    [] attribute = "READ_MODE" -> d.fread
    [] attribute = "TIMEOUT" -> GetTimeout(d.timeout)
    [] attribute = "NUM_INSTRUMENTS" ->
         Cardinality({m \in Minors : usbtmc_minors[m] # 0})
    [] attribute = "MINOR_NUMBERS" -> USBTMC_MINOR_NUMBERS
    [] attribute = "SIZE_IO_BUFFER" -> USBTMC_SIZE_IOBUFFER
    [] attribute = "DEFAULT_TIMEOUT" -> GetTimeout(USBTMC_DEFAULT_TIMEOUT)
    [] attribute = "DEBUG_MODE" -> 0
    [] attribute = "VERSION" -> USBTMC_VERSION
    [] attribute = "TERM_CHAR_ENABLED" -> d.term_char_enabled
    [] attribute = "TERM_CHAR" -> d.term_char
    [] attribute = "ADD_NL_ON_READ" -> d.add_nl_on_read
    [] attribute = "REM_NL_ON_WRITE" -> d.rem_nl_on_write
    [] OTHER -> 0

\* value is the value member of the caller's struct usbtmc_attribute: the
\* call leaves it as it was when it returns -EINVAL.
usbtmc_ioctl_get_attribute(s, attribute, value) ==
  LET ok == GetAttributeAccepts(attribute)
      f == [NewFrame(call[s], "get_attribute") EXCEPT
              !.attribute = attribute,
              !.value = IF ok THEN GetAttribute(dev[s], attribute) ELSE value]
  IN
  /\ Callable(s)
  /\ call' = [call EXCEPT ![s] = Return(f, IF ok THEN 0 ELSE -EINVAL)]
  /\ wire' = [wire EXCEPT ![s] = << >>]
  /\ UNCHANGED << kernel, usbtmc_minors, dev, filp, usbtmc_buffer,
                  usbtmc_last_write_bTag, usbtmc_last_read_bTag >>

(***************************************************************************)
(* The USB core and the device: what a transfer can return.                *)
(***************************************************************************)
TransferErrors == {-ETIMEDOUT, -EPIPE}

StatusBytes ==
  {USBTMC_STATUS_SUCCESS, USBTMC_STATUS_PENDING, USBTMC_STATUS_FAILED}

\* The answer to a class request: the status byte, a second byte, zeros.
Answer(status, second, wLength) ==
  Take(<< status, second >> \o Zeros(wLength), wLength)

\* n bytes "ABCABC...", the last of them being last.
Text(n, last) == [i \in 1 .. n |-> IF i = n THEN last ELSE 65 + ((i - 1) % 3)]

\* A DEV_DEP_MSG_IN answer of n bytes to the request tagged tag.
ReadReply(tag, n) ==
  << 2, tag, Inverse(tag), 0 >> \o LE32(n) \o << 1, 0, 0, 0 >> \o Text(n, 88)

ReplySizes == {0, 3}

\* What a bulk read of a drain gets: a short packet or a full one.
DrainData == {<< >>, Zeros(64)}

WriteBulkOutReturn(s) ==
  \E retval \in {0} \cup TransferErrors : write_bulk_out_return(s, retval)

ReadBulkOutReturn(s) ==
  \E retval \in {0} \cup TransferErrors : read_bulk_out_return(s, retval)

ReadBulkInReturn(s) ==
  \/ \E retval \in TransferErrors : read_bulk_in_return(s, retval, << >>)
  \/ \E n \in ReplySizes :
       read_bulk_in_return(s, 0, ReadReply(call[s].out_tag, n))

AbortBulkOutReturn(s) ==
  \/ \E rv \in TransferErrors : abort_bulk_out_initiate_return(s, rv, << >>)
  \/ \E st \in StatusBytes :
       abort_bulk_out_initiate_return(s, 2, Answer(st, 0, 2))
  \/ \E rv \in TransferErrors : abort_bulk_out_check_return(s, rv, << >>)
  \/ \E st \in StatusBytes :
       abort_bulk_out_check_return(s, 8, Answer(st, 0, 8))
  \/ \E rv \in {0} \cup TransferErrors : abort_bulk_out_clear_halt_return(s, rv)

AbortBulkInReturn(s) ==
  \/ \E rv \in TransferErrors : abort_bulk_in_initiate_return(s, rv, << >>)
  \/ \E st \in StatusBytes :
       abort_bulk_in_initiate_return(s, 2, Answer(st, 0, 2))
  \/ \E rv \in TransferErrors : abort_bulk_in_drain_return(s, rv, << >>)
  \/ \E data \in DrainData : abort_bulk_in_drain_return(s, 0, data)
  \/ \E rv \in TransferErrors : abort_bulk_in_check_return(s, rv, << >>)
  \/ \E st \in StatusBytes : \E second \in {0, 1} :
       abort_bulk_in_check_return(s, 8, Answer(st, second, 8))
  \/ \E rv \in TransferErrors : abort_bulk_in_drain_again_return(s, rv, << >>)
  \/ \E data \in DrainData : abort_bulk_in_drain_again_return(s, 0, data)

(***************************************************************************)
(* The calls a program makes.                                              *)
(***************************************************************************)
\* kmalloc does not clear the memory of the device data: auto_abort, which
\* usbtmc_probe does not set, is whatever was there (garbage).
Attach == FirstFreeMinor = 1 /\ \E garbage \in {0, 1} : usbtmc_probe(UsbtmcInterface, garbage, "none")

OnOff == {USBTMC_ATTRIB_VAL_ON, USBTMC_ATTRIB_VAL_OFF}

\* The session has framed no message yet: no transfer was made.
Fresh(s) == dev[s].bTag = 1 /\ usbtmc_last_write_bTag = 0

(***************************************************************************)
(* SpecWrite: one instrument, one message written to it, every transfer    *)
(* succeeding.                                                             *)
(***************************************************************************)
WriteSizes == {0, 1, 4, 2036, 2037, 4096}

WriteData ==
  {Text(n, 88) : n \in WriteSizes} \cup {Text(n, NEWLINE) : n \in {1, 4, 2037}}

SetWriteAttribute(s) ==
  /\ Fresh(s)
  /\ \E v \in OnOff : usbtmc_ioctl_set_attribute(s, "REM_NL_ON_WRITE", v)

Write(s) ==
  /\ Fresh(s)
  /\ \E data \in WriteData : \E ubad \in BOOLEAN : usbtmc_write(s, data, ubad)

NextWrite ==
  \/ Attach
  \/ usbtmc_open(1)
  \/ SetWriteAttribute(1)
  \/ Write(1)
  \/ write_bulk_out_return(1, 0)

\* usb_bulk_msg returns within its timeout: a pending transfer does return.
SpecWrite ==
  Init /\ [][NextWrite]_vars /\ WF_vars(write_bulk_out_return(1, 0))

(***************************************************************************)
(* SpecAbort: one instrument, one message written or read, transfers that  *)
(* fail, and the aborts that follow.                                       *)
(***************************************************************************)
SetAbortAttribute(s) ==
  /\ Fresh(s)
  /\ \E v \in OnOff : usbtmc_ioctl_set_attribute(s, "AUTO_ABORT_ON_ERROR", v)

WriteShort(s) ==
  /\ Fresh(s)
  /\ \E data \in {Text(1, 88), Text(2037, 88)} : usbtmc_write(s, data, FALSE)

ReadShort(s) ==
  /\ Fresh(s)
  /\ usbtmc_read(s, 20, FALSE)

NextAbort ==
  \/ Attach
  \/ usbtmc_open(1)
  \/ SetAbortAttribute(1)
  \/ WriteShort(1)
  \/ ReadShort(1)
  \/ WriteBulkOutReturn(1)
  \/ ReadBulkOutReturn(1)
  \/ ReadBulkInReturn(1)
  \/ AbortBulkOutReturn(1)
  \/ AbortBulkInReturn(1)

SpecAbort == Init /\ [][NextAbort]_vars

(***************************************************************************)
(* Spec: one instrument, any sequence of short writes, reads and ioctls.   *)
(***************************************************************************)
\* The messages framed since an answer was last read (since the start when
\* none was): the distance from usbtmc_last_read_bTag to the bTag in the
\* cycle 1, ..., 255.
Lag(s) ==
  IF usbtmc_last_read_bTag = 0 THEN dev[s].bTag - 1
  ELSE (dev[s].bTag - usbtmc_last_read_bTag + 255) % 255

\* The program reads an answer before it has framed more than MaxLag
\* messages without one.
InStep(s) == Lag(s) < MaxLag

Next ==
  \/ Attach
  \/ usbtmc_open(1)
  \/ InStep(1) /\ usbtmc_write(1, Text(1, 88), FALSE)
  \/ InStep(1) /\ usbtmc_read(1, 20, FALSE)
  \/ usbtmc_ioctl_abort_bulk_out(1)
  \/ \E retval \in {0, -ETIMEDOUT} : write_bulk_out_return(1, retval)
  \/ \E retval \in {0, -ETIMEDOUT} : read_bulk_out_return(1, retval)
  \/ read_bulk_in_return(1, -ETIMEDOUT, << >>)
  \/ read_bulk_in_return(1, 0, ReadReply(call[1].out_tag, 3))
  \/ abort_bulk_out_initiate_return(1, 2, Answer(USBTMC_STATUS_FAILED, 0, 2))
  \/ abort_bulk_in_initiate_return(1, 2, Answer(USBTMC_STATUS_FAILED, 0, 2))

Spec == Init /\ [][Next]_vars

(***************************************************************************)
(* SpecRead: one instrument, a few short messages read from it, in either  *)
(* read mode, with and without the added newline.                          *)
(***************************************************************************)
\* Calls are made while the bTag is at most MaxTag.
Early(s) == dev[s].bTag <= MaxTag

SetReadAttribute(s) ==
  \/ \E v \in {USBTMC_ATTRIB_VAL_FREAD, USBTMC_ATTRIB_VAL_READ} :
       usbtmc_ioctl_set_attribute(s, "READ_MODE", v)
  \/ \E v \in OnOff : usbtmc_ioctl_set_attribute(s, "ADD_NL_ON_READ", v)

ReadCounts == {8, 20}

ReadAnswers == {0, 4, 8}

NextRead ==
  \/ Attach
  \/ usbtmc_open(1)
  \/ Early(1) /\ SetReadAttribute(1)
  \/ Early(1) /\ \E data \in {<< >>, Text(1, 88)} : usbtmc_write(1, data, FALSE)
  \/ Early(1) /\ \E count \in ReadCounts : \E ubad \in BOOLEAN :
       usbtmc_read(1, count, ubad)
  \/ \E retval \in {0, -ETIMEDOUT} : write_bulk_out_return(1, retval)
  \/ \E retval \in {0, -ETIMEDOUT} : read_bulk_out_return(1, retval)
  \/ read_bulk_in_return(1, -ETIMEDOUT, << >>)
  \/ \E n \in ReadAnswers : read_bulk_in_return(1, 0, ReadReply(call[1].out_tag, n))
  \/ abort_bulk_out_initiate_return(1, 2, Answer(USBTMC_STATUS_FAILED, 0, 2))
  \/ abort_bulk_in_initiate_return(1, 2, Answer(USBTMC_STATUS_FAILED, 0, 2))

SpecRead == Init /\ [][NextRead]_vars

(***************************************************************************)
(* SpecAttr: one instrument, its attributes set and read back.             *)
(***************************************************************************)
\* The attributes usbtmc_ioctl_set_attribute assigns, the ones that can only
\* be read, and one that does not exist.
Writable ==
  {"AUTO_ABORT_ON_ERROR", "READ_MODE", "TIMEOUT", "TERM_CHAR_ENABLED",
   "TERM_CHAR", "ADD_NL_ON_READ", "REM_NL_ON_WRITE"}

ReadOnly ==
  {"NUM_INSTRUMENTS", "MINOR_NUMBERS", "SIZE_IO_BUFFER", "DEFAULT_TIMEOUT",
   "DEBUG_MODE", "VERSION"}

AttributeIds == Writable \cup ReadOnly \cup {"UNKNOWN"}

AttributeValues == {0, 1, -1, 2500}

NextAttr ==
  \/ Attach
  \/ usbtmc_open(1)
  \/ \E attribute \in AttributeIds : \E value \in AttributeValues :
       usbtmc_ioctl_set_attribute(1, attribute, value)
  \/ \E attribute \in AttributeIds : usbtmc_ioctl_get_attribute(1, attribute, 0)

SpecAttr == Init /\ [][NextAttr]_vars

(***************************************************************************)
(* SpecOpen: one device of any of three interface layouts, attached and    *)
(* opened, its attributes read and its first message written or read.      *)
(***************************************************************************)
\* An interface without a bulk IN endpoint, and one without a bulk OUT
\* endpoint.
InterfaceNoBulkIn ==
  << [bEndpointAddress |-> 2, bmAttributes |-> 2, wMaxPacketSize |-> 64],
     [bEndpointAddress |-> 131, bmAttributes |-> 3, wMaxPacketSize |-> 8] >>

InterfaceNoBulkOut ==
  << [bEndpointAddress |-> 129, bmAttributes |-> 2, wMaxPacketSize |-> 64],
     [bEndpointAddress |-> 131, bmAttributes |-> 3, wMaxPacketSize |-> 8] >>

Interfaces == {UsbtmcInterface, InterfaceNoBulkIn, InterfaceNoBulkOut}

AttachAny ==
  /\ FirstFreeMinor = 1
  /\ \E intf \in Interfaces : \E garbage \in {0, 1} : usbtmc_probe(intf, garbage, "none")

NextOpen ==
  \/ AttachAny
  \/ usbtmc_open(1)
  \/ \E attribute \in AttributeIds : usbtmc_ioctl_get_attribute(1, attribute, 0)
  \/ Fresh(1) /\ usbtmc_write(1, Text(1, 88), FALSE)
  \/ Fresh(1) /\ usbtmc_read(1, 20, FALSE)
  \/ \E retval \in {0, -ETIMEDOUT} : write_bulk_out_return(1, retval)
  \/ \E retval \in {0, -ETIMEDOUT} : read_bulk_out_return(1, retval)
  \/ read_bulk_in_return(1, -ETIMEDOUT, << >>)
  \/ read_bulk_in_return(1, 0, ReadReply(call[1].out_tag, 3))
  \/ abort_bulk_out_initiate_return(1, 2, Answer(USBTMC_STATUS_FAILED, 0, 2))
  \/ abort_bulk_in_initiate_return(1, 2, Answer(USBTMC_STATUS_FAILED, 0, 2))

SpecOpen == Init /\ [][NextOpen]_vars

(***************************************************************************)
(* SpecLife: devices attached (the attach failing at any step or not) and  *)
(* disconnected, their files opened, used and closed.                      *)
(***************************************************************************)
ProbeFaults == {"none", "kmalloc", "cdev_add"}

AttachOrFail ==
  /\ kernel.refcount < MaxRef
  /\ \E fault \in ProbeFaults : usbtmc_probe(UsbtmcInterface, 0, fault)

NextLife ==
  \/ AttachOrFail
  \/ \E m \in Minors : usbtmc_open(m)
  \/ \E m \in Minors : usbtmc_release(m)
  \/ \E m \in Minors : \E kept \in BOOLEAN : usbtmc_disconnect(m, kept)
  \/ \E m \in Minors : usbtmc_ioctl_get_attribute(m, "NUM_INSTRUMENTS", 0)
  \/ usbtmc_ioctl_set_attribute(1, "TERM_CHAR", 1)
  \/ Fresh(1) /\ usbtmc_write(1, Text(1, 88), FALSE)
  \/ \E retval \in {0, -EPIPE} : write_bulk_out_return(1, retval)

SpecLife == Init /\ [][NextLife]_vars

(***************************************************************************)
(* SpecPacket: one instrument and its first message, written to it in      *)
(* chunks or read from it, every transfer succeeding.                      *)
(***************************************************************************)
ReadFirst(s) ==
  /\ Fresh(s)
  /\ \E count \in {8, 20, 4096} : usbtmc_read(s, count, FALSE)

NextPacket ==
  \/ Attach
  \/ usbtmc_open(1)
  \/ SetWriteAttribute(1)
  \/ Write(1)
  \/ ReadFirst(1)
  \/ write_bulk_out_return(1, 0)
  \/ read_bulk_out_return(1, 0)
  \/ \E n \in ReplySizes : read_bulk_in_return(1, 0, ReadReply(call[1].out_tag, n))

SpecPacket == Init /\ [][NextPacket]_vars

(***************************************************************************)
(* SpecTwo: two instruments, each with its file, written to and aborted by *)
(* two programs whose calls interleave at the blocking transfers.          *)
(***************************************************************************)
AttachNext == usbtmc_probe(UsbtmcInterface, 0, "none")

\* The one-byte message the program of minor m writes.
Message(m) == << 64 + m >>

NextTwo ==
  \/ AttachNext
  \/ \E m \in Minors : usbtmc_open(m)
  \/ \E m \in Minors : Early(m) /\ usbtmc_write(m, Message(m), FALSE)
  \/ \E m \in Minors : write_bulk_out_return(m, 0)
  \/ \E m \in Minors : Early(m) /\ usbtmc_ioctl_abort_bulk_out(m)
  \/ \E m \in Minors :
       abort_bulk_out_initiate_return(m, 2, Answer(USBTMC_STATUS_FAILED, 0, 2))

SpecTwo == Init /\ [][NextTwo]_vars

(***************************************************************************)
(* SpecAbortOut: one instrument, ABORT_BULK_OUT asked for by the program   *)
(* before and after a message, and made by a failing write.                *)
(***************************************************************************)
AbortOut(s) ==
  /\ dev[s].bTag <= 2
  /\ call[s].op # "abort_bulk_out"
  /\ usbtmc_ioctl_abort_bulk_out(s)

NextAbortOut ==
  \/ Attach
  \/ usbtmc_open(1)
  \/ Fresh(1) /\ usbtmc_write(1, Text(1, 88), FALSE)
  \/ WriteBulkOutReturn(1)
  \/ AbortOut(1)
  \/ AbortBulkOutReturn(1)

SpecAbortOut == Init /\ [][NextAbortOut]_vars

(***************************************************************************)
(* SpecClear: one instrument, ABORT_BULK_IN and CLEAR asked for by the     *)
(* program, and a device that answers the status checks in any way.        *)
(***************************************************************************)
\* The status checks of one call that the device answers with PENDING.
MaxPolls == 3

\* The status checks of the call on s answered with PENDING so far, as
\* its record tells; once the record is full the device answers PENDING no
\* more.
Pendings(s) ==
  IF Len(wire[s]) = MaxWire THEN MaxPolls
  ELSE Cardinality({i \in 1 .. Len(wire[s]) :
                      /\ wire[s][i].kind = "control"
                      /\ wire[s][i].rv >= 0
                      /\ Peek(wire[s][i].bytes, 0) = USBTMC_STATUS_PENDING})

\* The answers to a status check: SUCCESS, FAILED, and PENDING with byte 1
\* saying no data, data (bit 0), and data with a reserved bit set as well.
StatusAnswers ==
  { << USBTMC_STATUS_SUCCESS, 0 >>, << USBTMC_STATUS_FAILED, 0 >>,
    << USBTMC_STATUS_PENDING, 0 >>, << USBTMC_STATUS_PENDING, 1 >>,
    << USBTMC_STATUS_PENDING, 3 >> }

AbortInReturn(s) ==
  \/ abort_bulk_in_initiate_return(s, -ETIMEDOUT, << >>)
  \/ \E st \in StatusBytes :
       abort_bulk_in_initiate_return(s, 2, Answer(st, 0, 2))
  \/ abort_bulk_in_drain_return(s, -ETIMEDOUT, << >>)
  \/ \E data \in DrainData : abort_bulk_in_drain_return(s, 0, data)
  \/ abort_bulk_in_check_return(s, -ETIMEDOUT, << >>)
  \/ \E a \in StatusAnswers :
       /\ a[1] = USBTMC_STATUS_PENDING => Pendings(s) < MaxPolls
       /\ abort_bulk_in_check_return(s, 8, Answer(a[1], a[2], 8))
  \/ abort_bulk_in_drain_again_return(s, -ETIMEDOUT, << >>)
  \/ \E data \in DrainData : abort_bulk_in_drain_again_return(s, 0, data)

ClearReturn(s) ==
  \/ clear_initiate_return(s, -ETIMEDOUT, << >>)
  \/ \E st \in StatusBytes : clear_initiate_return(s, 1, Answer(st, 0, 1))
  \/ clear_check_return(s, -ETIMEDOUT, << >>)
  \/ \E a \in StatusAnswers :
       /\ a[1] = USBTMC_STATUS_PENDING => Pendings(s) < MaxPolls
       /\ clear_check_return(s, 2, Answer(a[1], a[2], 2))
  \/ clear_drain_return(s, -ETIMEDOUT, << >>)
  \/ \E data \in DrainData : clear_drain_return(s, 0, data)
  \/ \E rv \in {0, -ETIMEDOUT} : clear_bulk_out_halt_return(s, rv)

\* The stack of usbtmc_ioctl_clear holds anything: a value that is not the
\* wMaxPacketSize of the bulk IN endpoint, or one that is.
Clear(s) == \E garbage \in {0, 64} : usbtmc_ioctl_clear(s, garbage)

\* The program has made no call yet.
Once(s) == call[s].pc = "idle"

NextClear ==
  \/ Attach
  \/ usbtmc_open(1)
  \/ Once(1) /\ usbtmc_ioctl_abort_bulk_in(1)
  \/ Once(1) /\ Clear(1)
  \/ AbortInReturn(1)
  \/ ClearReturn(1)

SpecClear == Init /\ [][NextClear]_vars

(***************************************************************************)
(* SpecSize: one instrument and the first message read from it, for read   *)
(* counts on both sides of 15 and of the buffer size, the termination      *)
(* character on or off, and a device that declares any answer size.        *)
(***************************************************************************)
SetTermAttribute(s) ==
  /\ Fresh(s)
  /\ \/ \E v \in OnOff : usbtmc_ioctl_set_attribute(s, "TERM_CHAR_ENABLED", v)
     \/ \E v \in {13, 59} : usbtmc_ioctl_set_attribute(s, "TERM_CHAR", v)

SizeCounts == {1, 14, 15, 20, 4096}

\* The TransferSize the device puts in its DEV_DEP_MSG_IN header; one of
\* USBTMC_SIZE_IOBUFFER or more (after which usbtmc_read asks again) is
\* declared by the first answer only.
SizeAnswers == {0, 3, 30, 2040, 2048}

\* A DEV_DEP_MSG_IN answer whose header declares n bytes: the transfer
\* itself holds what fits in USBTMC_SIZE_IOBUFFER bytes.
ReadReplyDeclaring(tag, n) ==
  Take(ReadReply(tag, n), USBTMC_SIZE_IOBUFFER)

NextSize ==
  \/ Attach
  \/ usbtmc_open(1)
  \/ SetTermAttribute(1)
  \/ Fresh(1) /\ \E count \in SizeCounts : usbtmc_read(1, count, FALSE)
  \/ read_bulk_out_return(1, 0)
  \/ \E n \in SizeAnswers :
       /\ n >= USBTMC_SIZE_IOBUFFER => call[1].done = 0
       /\ read_bulk_in_return(1, 0, ReadReplyDeclaring(call[1].out_tag, n))

SpecSize == Init /\ [][NextSize]_vars

(***************************************************************************)
(* SpecPoll: one instrument, ABORT_BULK_IN and CLEAR asked for by the      *)
(* program, every request returning without a transfer error, and a device *)
(* that never indicates data in its status answers.                        *)
(***************************************************************************)
\* Byte 1 of a status answer with bit 0 clear: no data indicated.  The
\* device's other bits vary from one answer to the next.
NoDataSeconds == {0, 2}

PollReturn(s) ==
  \/ \E st \in StatusBytes :
       abort_bulk_in_initiate_return(s, 2, Answer(st, 0, 2))
  \/ \E data \in DrainData : abort_bulk_in_drain_return(s, 0, data)
  \/ \E st \in StatusBytes : \E second \in NoDataSeconds :
       abort_bulk_in_check_return(s, 8, Answer(st, second, 8))
  \/ \E st \in StatusBytes : clear_initiate_return(s, 1, Answer(st, 0, 1))
  \/ \E st \in StatusBytes : \E second \in NoDataSeconds :
       clear_check_return(s, 2, Answer(st, second, 2))
  \/ clear_bulk_out_halt_return(s, 0)

NextPoll ==
  \/ Attach
  \/ usbtmc_open(1)
  \/ Once(1) /\ usbtmc_ioctl_abort_bulk_in(1)
  \/ Once(1) /\ Clear(1)
  \/ PollReturn(1)

\* usb_control_msg and usb_bulk_msg return within the timeout: a request
\* that is pending does return.
SpecPoll == Init /\ [][NextPoll]_vars /\ WF_vars(PollReturn(1))

(***************************************************************************)
(* What the recorded transfers of a call say.                              *)
(***************************************************************************)
\* The fields of a bulk OUT packet's header, as the device decodes them.
PacketTag(p) == p.bytes[2]

PacketTransferSize(p) == FromLE32(p.bytes[5], p.bytes[6], p.bytes[7], p.bytes[8])

PacketEOM(p) == p.bytes[9] % 2

\* The payload the header declares: TransferSize bytes after the header.
PacketPayload(p) == SubSeq(p.bytes, 13, 12 + PacketTransferSize(p))

\* The places of the bulk transfers of a record that failed.
FailedAt(w) ==
  {i \in 1 .. Len(w) : w[i].kind \in {"bulk_out", "bulk_in"} /\ w[i].rv < 0}

FirstFailed(w) == CHOOSE i \in FailedAt(w) : \A j \in FailedAt(w) : i <= j

\* The bTag after t in the cycle 1, 2, ..., 255, 1.
Successor(t) == IF t = 255 THEN 1 ELSE t + 1

Capacity == USBTMC_SIZE_IOBUFFER - 12

\* ceil(n/c)
CeilDiv(n, c) == (n + c - 1) \div c

\* The bytes needed to reach a 4-byte boundary from n.
PadTo4(n) == (4 - (n % 4)) % 4

\* The i-th packet of a write of data on a fresh session, chunked by
\* Capacity: full chunks with EOM clear, then the remainder with EOM set,
\* zero-padded to a 4-byte boundary.
ExpectedPacket(data, i) ==
  LET k == CeilDiv(Len(data), Capacity)
      size == IF i < k THEN Capacity ELSE Len(data) - (k - 1) * Capacity
  IN << 1, i, 255 - i, 0 >> \o LE32(size) \o << IF i < k THEN 0 ELSE 1, 0, 0, 0 >>
       \o SubSeq(data, (i - 1) * Capacity + 1, (i - 1) * Capacity + size)
       \o Zeros(PadTo4(size))

(***************************************************************************)
(* The claims.                                                             *)
(***************************************************************************)
\* C1: a write of N bytes whose bulk transfers all succeed terminates after
\* finitely many OUT packets and returns exactly N, under every attribute
\* configuration: a write that waits for a transfer eventually returns its
\* count.  (Checked under SpecWrite, where every transfer succeeds.)
C1_WriteReturnsCount ==
  (call[1].pc = "write_bulk_out")
    ~> (call[1].pc = "returned" /\ call[1].ret = call[1].count)

\* C2: with rem_nl_on_write ON, the write of "ABC\n" emits a packet whose
\* payload is the 3 bytes "ABC" with EOM set (the header declares 3 bytes),
\* and the call, once returned, has returned 4.
C2_NewlineRemoved ==
  \A s \in Minors :
    ( /\ call[s].op = "write"
      /\ call[s].data = << 65, 66, 67, NEWLINE >>
      /\ ~call[s].ubad
      /\ dev[s].rem_nl_on_write = USBTMC_ATTRIB_VAL_ON )
    => /\ Len(wire[s]) >= 1 =>
            /\ PacketTransferSize(wire[s][1]) = 3
            /\ PacketPayload(wire[s][1]) = << 65, 66, 67 >>
            /\ PacketEOM(wire[s][1]) = 1
       /\ call[s].pc = "returned" => call[s].ret = 4

\* C3: a write of zero bytes, once returned, has emitted exactly one OUT
\* packet, with payload length 0 and EOM set.
C3_ZeroByteWrite ==
  \A s \in Minors :
    (call[s].op = "write" /\ call[s].count = 0 /\ call[s].pc = "returned")
    => /\ Len(wire[s]) = 1
       /\ wire[s][1].kind = "bulk_out"
       /\ PacketTransferSize(wire[s][1]) = 0
       /\ PacketEOM(wire[s][1]) = 1

\* C4: in every write, under every attribute setting, every packet that
\* another packet follows has EOM clear, and the last packet of a returned
\* write that emitted more than one has EOM set.
C4_EOMOnFinalPacketOnly ==
  \A s \in Minors :
    call[s].op = "write"
    => /\ \A i \in 1 .. Len(wire[s]) - 1 : PacketEOM(wire[s][i]) = 0
       /\ ( /\ call[s].pc = "returned"
            /\ call[s].ret = call[s].count
            /\ Len(wire[s]) > 1
            /\ Len(wire[s]) < MaxWire )
          => PacketEOM(wire[s][Len(wire[s])]) = 1

\* A 4096-byte write on a fresh session (SpecWrite makes every write on
\* one) has returned its count.
Wrote4096(s) ==
  /\ call[s].op = "write"
  /\ call[s].count = 4096
  /\ call[s].pc = "returned"
  /\ call[s].ret = 4096

\* C5 as stated: a write of 4096 bytes on a fresh session with
\* IOBUFFER=2048 emits exactly two OUT packets, bTags 1 and 2, TransferSize
\* 2036 and 2060, EOM 0 then 1.
C5_TwoPackets ==
  \A s \in Minors :
    Wrote4096(s)
    => /\ Len(wire[s]) = 2
       /\ PacketTag(wire[s][1]) = 1 /\ PacketTag(wire[s][2]) = 2
       /\ PacketTransferSize(wire[s][1]) = 2036
       /\ PacketTransferSize(wire[s][2]) = 2060
       /\ PacketEOM(wire[s][1]) = 0 /\ PacketEOM(wire[s][2]) = 1

\* C5, amended: a write of 4096 bytes on a fresh session with IOBUFFER=2048
\* emits exactly three OUT packets, bTags 1, 2 and 3, TransferSize 2036,
\* 2036 and 24, EOM 0, 0 then 1.
C5_ThreePackets ==
  \A s \in Minors :
    Wrote4096(s)
    => /\ Len(wire[s]) = 3
       /\ \A i \in 1 .. 3 : wire[s][i].kind = "bulk_out" /\ PacketTag(wire[s][i]) = i
       /\ PacketTransferSize(wire[s][1]) = 2036
       /\ PacketTransferSize(wire[s][2]) = 2036
       /\ PacketTransferSize(wire[s][3]) = 24
       /\ PacketEOM(wire[s][1]) = 0
       /\ PacketEOM(wire[s][2]) = 0
       /\ PacketEOM(wire[s][3]) = 1

C5_Witness == Wrote4096(1) /\ USBTMC_SIZE_IOBUFFER = 2048

\* C6: with rem_nl_on_write OFF, a write of N > 0 bytes emits ceil(N/C)
\* packets, C = IOBUFFER-12: every packet but the last carries C bytes with
\* EOM clear, the last the remainder with EOM set, and zero bytes are added
\* only as needed to reach a 4-byte boundary.
C6_Chunks ==
  \A s \in Minors :
    ( /\ call[s].op = "write"
      /\ call[s].count > 0
      /\ dev[s].rem_nl_on_write = USBTMC_ATTRIB_VAL_OFF )
    => /\ Len(wire[s]) <= CeilDiv(call[s].count, Capacity)
       /\ \A i \in 1 .. Len(wire[s]) :
            /\ wire[s][i].kind = "bulk_out"
            /\ wire[s][i].bytes = ExpectedPacket(call[s].data, i)
       /\ (call[s].pc = "returned" /\ call[s].ret = call[s].count)
          => Len(wire[s]) = CeilDiv(call[s].count, Capacity)

\* N = C+1: two packets, the second with 1 payload byte and 3 pad bytes.
C6_Witness ==
  /\ call[1].op = "write"
  /\ call[1].count = Capacity + 1
  /\ dev[1].rem_nl_on_write = USBTMC_ATTRIB_VAL_OFF
  /\ call[1].pc = "returned"
  /\ call[1].ret = Capacity + 1
  /\ Len(wire[1]) = 2
  /\ Len(wire[1][2].bytes) = 16

\* C7: in every reachable state the bTag of an attached session is in
\* 1..255, and it is 1 until the session is opened.
C7_BTagInRange ==
  \A s \in Minors :
    usbtmc_minors[s] = 1
    => /\ dev[s].bTag \in 1 .. 255
       /\ filp[s] = "closed" => dev[s].bTag = 1

\* The bTag has wrapped: the message tagged 255 was sent, the next is 1.
C7_Witness == dev[1].bTag = 1 /\ usbtmc_last_write_bTag = 255

\* C8: when a read follows a write that succeeded, the bTag of the read's
\* REQUEST_DEV_DEP_MSG_IN header is the successor, in the cycle 1..255, of
\* the bTag of the last OUT packet of the write.
C8_ReadTagFollowsWrite ==
  \A s \in Minors :
    ( /\ call[s].op = "read"
      /\ call[s].prev.op = "write"
      /\ call[s].prev.ret > 0
      /\ Len(wire[s]) >= 1 )
    => /\ wire[s][1].kind = "bulk_out"
       /\ wire[s][1].bytes[1] = 2
       /\ PacketTag(wire[s][1]) = Successor(call[s].prev.out_tag)

\* A read that succeeded after a write whose packet was tagged 255.
C8_Witness ==
  /\ call[1].op = "read"
  /\ call[1].prev.op = "write"
  /\ call[1].prev.ret > 0
  /\ call[1].prev.out_tag = 255
  /\ call[1].pc = "returned"
  /\ call[1].ret = 3

\* C9: when a bulk transfer of a read or write fails and auto_abort is ON,
\* the request that follows is the INITIATE of the abort of the endpoint of
\* the failed transfer (ABORT_BULK_OUT for a bulk OUT, ABORT_BULK_IN for a
\* bulk IN), INITIATE_ABORT_BULK_OUT carries the bTag of the failed OUT
\* transfer as wValue, and the call returns the error of the transfer.
C9_AutoAbort ==
  \A s \in Minors :
    ( /\ call[s].op \in {"read", "write"}
      /\ FailedAt(wire[s]) # {}
      /\ dev[s].auto_abort = USBTMC_ATTRIB_VAL_ON )
    => LET i == FirstFailed(wire[s])
           failed == wire[s][i]
       IN
       /\ Len(wire[s]) = i =>
            call[s].pc = IF failed.kind = "bulk_out"
                           THEN "abort_bulk_out_initiate"
                           ELSE "abort_bulk_in_initiate"
       /\ Len(wire[s]) > i =>
            /\ wire[s][i + 1].kind = "control"
            /\ wire[s][i + 1].req.type = "class_endpoint"
            /\ wire[s][i + 1].req.wIndex = failed.ep
            /\ failed.kind = "bulk_out" =>
                 /\ wire[s][i + 1].req.bRequest =
                      USBTMC_REQUEST_INITIATE_ABORT_BULK_OUT
                 /\ wire[s][i + 1].req.wValue = PacketTag(failed)
            /\ failed.kind = "bulk_in" =>
                 wire[s][i + 1].req.bRequest =
                   USBTMC_REQUEST_INITIATE_ABORT_BULK_IN
       /\ call[s].pc = "returned" => call[s].ret = failed.rv

\* The second chunk of a write failed, the abort went as far as clearing
\* the halt, which failed too, and the write returned.
C9_Witness ==
  /\ call[1].op = "write"
  /\ dev[1].auto_abort = USBTMC_ATTRIB_VAL_ON
  /\ call[1].pc = "returned"
  /\ Len(wire[1]) >= 5
  /\ FirstFailed(wire[1]) = 2
  /\ wire[1][5].req.bRequest = USB_REQ_CLEAR_FEATURE
  /\ wire[1][5].rv < 0

\* C10 as stated: after the first failing bulk transfer of a write or read
\* the call submits no further bulk transfer, and with auto_abort OFF no
\* control request either.
C10_NoFurtherTransfer ==
  \A s \in Minors :
    (call[s].op \in {"read", "write"} /\ FailedAt(wire[s]) # {})
    => LET i == FirstFailed(wire[s]) IN
       /\ \A j \in i + 1 .. Len(wire[s]) :
            wire[s][j].kind \notin {"bulk_out", "bulk_in"}
       /\ dev[s].auto_abort = USBTMC_ATTRIB_VAL_OFF => Len(wire[s]) = i

\* C10, amended: after the first failing bulk transfer of a write or read,
\* the call submits no further bulk OUT transfer; the only bulk IN
\* transfers that follow are those by which the automatic ABORT_BULK_IN,
\* begun by its INITIATE request after a failed IN stage, drains the
\* endpoint; with auto_abort OFF the call submits nothing more and returns
\* the error.
C10_OnlyAbortFollows ==
  \A s \in Minors :
    (call[s].op \in {"read", "write"} /\ FailedAt(wire[s]) # {})
    => LET i == FirstFailed(wire[s])
           failed == wire[s][i]
       IN
       /\ \A j \in i + 1 .. Len(wire[s]) :
            /\ wire[s][j].kind # "bulk_out"
            /\ wire[s][j].kind = "bulk_in" =>
                 /\ j > i + 1
                 /\ failed.kind = "bulk_in"
                 /\ dev[s].auto_abort # USBTMC_ATTRIB_VAL_OFF
                 /\ wire[s][i + 1].kind = "control"
                 /\ wire[s][i + 1].req.bRequest =
                      USBTMC_REQUEST_INITIATE_ABORT_BULK_IN
       /\ dev[s].auto_abort = USBTMC_ATTRIB_VAL_OFF =>
            /\ Len(wire[s]) = i
            /\ call[s].pc = "returned"
            /\ call[s].ret = failed.rv

\* The IN stage of a read failed and the automatic abort read the endpoint.
C10_Witness ==
  /\ call[1].op = "read"
  /\ FailedAt(wire[1]) # {}
  /\ FirstFailed(wire[1]) = 2
  /\ Len(wire[1]) >= 4
  /\ wire[1][4].kind = "bulk_in"

(***************************************************************************)
(* Reading: the end-of-message flag and the added newline.                 *)
(***************************************************************************)
\* The step enters a new read call on minor s.
EnterRead(s) ==
  /\ call[s].pc \in {"idle", "returned"}
  /\ call'[s] # call[s]
  /\ call'[s].op = "read"

\* The read call on s has returned 0 without any transfer.
ForcedZero(s) ==
  /\ call[s].op = "read"
  /\ call[s].pc = "returned"
  /\ call[s].ret = 0
  /\ wire[s] = << >>

\* The read call on s has asked the device and got an answer.
RoundTrip(s) ==
  /\ call[s].op = "read"
  /\ Len(wire[s]) >= 2
  /\ wire[s][1].kind = "bulk_out"
  /\ wire[s][1].bytes[1] = 2
  /\ wire[s][1].rv >= 0
  /\ wire[s][2].kind = "bulk_in"
  /\ wire[s][2].rv >= 0

\* The read call on s got an answer shorter than the count asked for.
ShortAnswer(s) == RoundTrip(s) /\ PacketTransferSize(wire[s][2]) < call[s].count

C11_OneRoundTrip ==
  ( /\ ShortAnswer(1)
    /\ dev[1].add_nl_on_read = USBTMC_ATTRIB_VAL_OFF
    /\ ~(call[1].ubad /\ PacketTransferSize(wire[1][2]) > 0) )
  => /\ call[1].pc = "returned"
     /\ Len(wire[1]) = 2
     /\ call[1].ret = PacketTransferSize(wire[1][2])
     /\ call[1].ubuf = PacketPayload(wire[1][2])

C11_NextReadIsZero ==
  ( /\ ShortAnswer(1)
    /\ call[1].pc = "returned"
    /\ call[1].ret >= 0
    /\ dev[1].fread = USBTMC_ATTRIB_VAL_FREAD
    /\ EnterRead(1) )
  => ForcedZero(1)'

C12_ForcedZeroAtEof ==
  ( /\ dev[1].fread = USBTMC_ATTRIB_VAL_FREAD
    /\ dev[1].eof # 0
    /\ EnterRead(1) )
  => /\ ForcedZero(1)'
     /\ dev'[1].eof = 0
     /\ usbtmc_buffer' = usbtmc_buffer
     /\ dev'[1].bTag = dev[1].bTag

C12_ThenRoundTrip ==
  ( /\ ForcedZero(1)
    /\ EnterRead(1) )
  => /\ call'[1].pc = "read_bulk_out"
     /\ wire'[1] = << >>

\* C12: a read entered in FREAD mode with eof set returns 0 without any USB
\* transfer and clears eof; the read after it is not forced to 0 again but
\* goes to the device.
C12_OneForcedZero == [][C12_ForcedZeroAtEof /\ C12_ThenRoundTrip]_vars

C12_Witness ==
  /\ RoundTrip(1)
  /\ call[1].prev.op = "read"
  /\ call[1].prev.ret = 0
  /\ call[1].prev.out_tag = 0

\* C13: in READ mode no read is forced to 0: every read sends its
\* REQUEST_DEV_DEP_MSG_IN, also the one after a short read; an instrument
\* that was just attached is in FREAD mode.
C13_ForcedOnlyUnderFread ==
  /\ ( /\ call[1].op = "read"
       /\ dev[1].fread = USBTMC_ATTRIB_VAL_READ )
     => /\ ~ForcedZero(1)
        /\ call[1].pc # "read_bulk_out" => /\ Len(wire[1]) >= 1
                                            /\ wire[1][1].kind = "bulk_out"
                                            /\ wire[1][1].bytes[1] = 2
  /\ ( /\ usbtmc_minors[1] = 1
       /\ filp[1] = "closed" )
     => dev[1].fread = USBTMC_ATTRIB_VAL_FREAD

C13_Witness ==
  /\ RoundTrip(1)
  /\ dev[1].fread = USBTMC_ATTRIB_VAL_READ
  /\ dev[1].add_nl_on_read = USBTMC_ATTRIB_VAL_OFF
  /\ call[1].prev.op = "read"
  /\ call[1].prev.ret = 4

\* C14: every write, of any length and whether its transfer succeeds or not,
\* clears eof, so the read made directly after a write is never forced to 0:
\* it sends its request to the device.
C14_WriteResetsEof ==
  /\ ( /\ call[1].op = "write"
       /\ call[1].pc # "idle" )
     => dev[1].eof = 0
  /\ ( /\ call[1].op = "read"
       /\ call[1].prev.op = "write" )
     => /\ ~ForcedZero(1)
        /\ call[1].pc # "read_bulk_out" => /\ Len(wire[1]) >= 1
                                            /\ wire[1][1].kind = "bulk_out"

C14_Witness ==
  /\ RoundTrip(1)
  /\ dev[1].fread = USBTMC_ATTRIB_VAL_FREAD
  /\ call[1].prev.op = "write"
  /\ call[1].prev.ret < 0

\* C15: with add_nl_on_read on, a read(N) that succeeds appends exactly one
\* 0x0A to the device data when the data is shorter than N, and appends
\* nothing when the data fills the N bytes.
C15_NewlineAdded ==
  ( /\ RoundTrip(1)
    /\ call[1].pc = "returned"
    /\ call[1].ret >= 0
    /\ dev[1].add_nl_on_read = USBTMC_ATTRIB_VAL_ON )
  => LET n == PacketTransferSize(wire[1][2])
         data == PacketPayload(wire[1][2])
     IN  IF n < call[1].count
           THEN /\ call[1].ret = n + 1
                /\ call[1].ubuf = Append(data, NEWLINE)
           ELSE /\ call[1].ret = n
                /\ call[1].ubuf = data

C15_Witness ==
  /\ RoundTrip(1)
  /\ call[1].pc = "returned"
  /\ dev[1].add_nl_on_read = USBTMC_ATTRIB_VAL_ON
  /\ call[1].count = 8
  /\ call[1].ret = 5
  /\ call[1].ubuf = Append(Text(4, 88), NEWLINE)

(***************************************************************************)
(* Attributes.                                                             *)
(***************************************************************************)
\* The step is a whole SET_ATTRIBUTE, or GET_ATTRIBUTE, call on minor s.
EnterSet(s) ==
  /\ call[s].pc \in {"idle", "returned"}
  /\ call'[s] # call[s]
  /\ call'[s].op = "set_attribute"

EnterGet(s) ==
  /\ call[s].pc \in {"idle", "returned"}
  /\ call'[s] # call[s]
  /\ call'[s].op = "get_attribute"

\* The attributes that are stored as given, and the values each one admits.
Plain ==
  {"AUTO_ABORT_ON_ERROR", "READ_MODE", "TERM_CHAR_ENABLED", "TERM_CHAR",
   "ADD_NL_ON_READ", "REM_NL_ON_WRITE"}

Allowed(attribute, v) ==
  CASE attribute = "READ_MODE" ->
         v \in {USBTMC_ATTRIB_VAL_FREAD, USBTMC_ATTRIB_VAL_READ}
    [] attribute = "TERM_CHAR" -> v \in 0 .. 255
    [] attribute = "TIMEOUT" -> v >= 0
    [] attribute \in Plain \ {"READ_MODE", "TERM_CHAR"} ->
         v \in {USBTMC_ATTRIB_VAL_ON, USBTMC_ATTRIB_VAL_OFF}
    [] OTHER -> FALSE

\* The field of the device data that holds an attribute.
Field(attribute) ==
  CASE attribute = "AUTO_ABORT_ON_ERROR" -> "auto_abort"
    [] attribute = "READ_MODE" -> "fread"
    [] attribute = "TIMEOUT" -> "timeout"
    [] attribute = "TERM_CHAR_ENABLED" -> "term_char_enabled"
    [] attribute = "TERM_CHAR" -> "term_char"
    [] attribute = "ADD_NL_ON_READ" -> "add_nl_on_read"
    [] attribute = "REM_NL_ON_WRITE" -> "rem_nl_on_write"

\* The call on s that has returned is a SET_ATTRIBUTE of a plain attribute
\* to an allowed value.
PlainSetDone(s) ==
  /\ call[s].op = "set_attribute"
  /\ call[s].attribute \in Plain
  /\ Allowed(call[s].attribute, call[s].value)

C16_SetStores ==
  ( /\ EnterSet(1)
    /\ call'[1].attribute \in Plain
    /\ Allowed(call'[1].attribute, call'[1].value) )
  => /\ call'[1].ret = 0
     /\ dev'[1][Field(call'[1].attribute)] = call'[1].value
     /\ \A fld \in DOMAIN dev[1] \ {Field(call'[1].attribute)} :
          dev'[1][fld] = dev[1][fld]

C16_GetReturns ==
  ( /\ PlainSetDone(1)
    /\ EnterGet(1)
    /\ call'[1].attribute = call[1].attribute )
  => /\ call'[1].ret = 0
     /\ call'[1].value = call[1].value

\* C16: for AUTO_ABORT_ON_ERROR, READ_MODE, TERM_CHAR_ENABLED, TERM_CHAR,
\* ADD_NL_ON_READ and REM_NL_ON_WRITE and every allowed value v,
\* SET_ATTRIBUTE succeeds and changes no other attribute, and the
\* GET_ATTRIBUTE of the same attribute that follows returns v.
C16_SetThenGet == [][C16_SetStores /\ C16_GetReturns]_vars

C16_Witness ==
  /\ call[1].op = "get_attribute"
  /\ call[1].attribute = "TERM_CHAR"
  /\ call[1].value = 1
  /\ call[1].prev.op = "set_attribute"
  /\ call[1].prev.ret = 0
  /\ dev[1].fread = USBTMC_ATTRIB_VAL_READ
  /\ dev[1].add_nl_on_read = USBTMC_ATTRIB_VAL_ON

C17_GetReturnsTimeout ==
  ( /\ call[1].op = "set_attribute"
    /\ call[1].attribute = "TIMEOUT"
    /\ call[1].value >= 0
    /\ EnterGet(1)
    /\ call'[1].attribute = "TIMEOUT" )
  => /\ call'[1].ret = 0
     /\ call'[1].value = call[1].value

\* C17: for every timeout v >= 0 in milliseconds, SET_ATTRIBUTE(TIMEOUT, v)
\* followed by GET_ATTRIBUTE(TIMEOUT) returns v.
C17_TimeoutRoundTrip == [][C17_GetReturnsTimeout]_vars

C18_Rejected ==
  ( /\ EnterSet(1)
    /\ ~Allowed(call'[1].attribute, call'[1].value) )
  => /\ call'[1].ret = -EINVAL
     /\ dev' = dev

\* C18: SET_ATTRIBUTE of an unknown attribute, of a read-only attribute or
\* of a value outside the attribute's range returns -EINVAL and leaves every
\* attribute as it was.
C18_BadSetRejected == [][C18_Rejected]_vars

C18_Witness ==
  /\ call[1].op = "set_attribute"
  /\ call[1].ret = -EINVAL
  /\ call[1].attribute = "TERM_CHAR_ENABLED"
  /\ call[1].value = 2500
  /\ call[1].prev.op = "set_attribute"
  /\ call[1].prev.ret = -EINVAL
  /\ dev[1].term_char_enabled = USBTMC_ATTRIB_VAL_ON

(***************************************************************************)
(* Attach and open.                                                        *)
(***************************************************************************)
\* C19: once attached, the instrument has the default timeout, term_char
\* 0x0A, term_char_enabled, add_nl_on_read, rem_nl_on_write and auto_abort
\* off, FREAD mode, bTag 1 and eof clear; so a transfer that fails in the
\* first call of a session is followed by no abort request.
C19_Defaults ==
  /\ ( /\ usbtmc_minors[1] = 1
       /\ call[1].op = "none" )
     => /\ dev[1].timeout = USBTMC_DEFAULT_TIMEOUT
        /\ dev[1].term_char = NEWLINE
        /\ dev[1].term_char_enabled = USBTMC_ATTRIB_VAL_OFF
        /\ dev[1].add_nl_on_read = USBTMC_ATTRIB_VAL_OFF
        /\ dev[1].rem_nl_on_write = USBTMC_ATTRIB_VAL_OFF
        /\ dev[1].auto_abort = USBTMC_ATTRIB_VAL_OFF
        /\ dev[1].fread = USBTMC_ATTRIB_VAL_FREAD
        /\ dev[1].bTag = 1
        /\ dev[1].eof = 0
  /\ ( /\ call[1].op \in {"read", "write"}
       /\ call[1].prev.op \in {"none", "get_attribute"}
       /\ FailedAt(wire[1]) # {} )
     => /\ call[1].pc = "returned"
        /\ Len(wire[1]) = FirstFailed(wire[1])

\* C20: an open file has a bulk IN and a bulk OUT address that are not 0,
\* and no bulk transfer is made on endpoint address 0.
C20_EndpointsFound ==
  /\ filp[1] = "open" => /\ dev[1].bulk_in # 0
                         /\ dev[1].bulk_out # 0
  /\ \A i \in 1 .. Len(wire[1]) :
       wire[1][i].kind \in {"bulk_in", "bulk_out"} => wire[1][i].ep # 0

(***************************************************************************)
(* Attach and disconnect.                                                  *)
(***************************************************************************)
\* Every minor marked used has device data that is allocated, and the
\* NUM_INSTRUMENTS a GET_ATTRIBUTE returns is the number of attached devices.
RegistryLive ==
  /\ \A m \in Minors : usbtmc_minors[m] # 0 => m \in kernel.allocated
  /\ GetAttribute(NoDevice, "NUM_INSTRUMENTS") = Cardinality(kernel.allocated)

\* C21: after any attach attempts (failing or not) and disconnects, every
\* minor marked used refers to a live device, NUM_INSTRUMENTS is the number of
\* attached devices, and an attach that fails leaves usbtmc_minors as it was.
C21_Registry ==
  [][ /\ RegistryLive'
      /\ kernel'.allocated = kernel.allocated => usbtmc_minors' = usbtmc_minors
    ]_vars

\* The step enters a read, write or ioctl call on minor s.
EnterCall(s) ==
  /\ call[s].pc \in {"idle", "returned"}
  /\ call'[s] # call[s]
  /\ call'[s].op \in {"read", "write", "set_attribute", "get_attribute"}

\* C22: a call made on a file whose device was disconnected returns an error
\* without a transfer and without touching the freed device data.
C22_CallAfterDisconnect ==
  [][ ( /\ filp[1] = "open"
        /\ 1 \notin kernel.allocated
        /\ EnterCall(1) )
      => /\ call'[1].pc = "returned"
         /\ call'[1].ret < 0
         /\ wire'[1] = << >>
         /\ dev' = dev
    ]_vars

\* C23: the references held on the USB device are one per attached device:
\* attach takes one, disconnect gives it back.
C23_RefcountBalanced == kernel.refcount = Cardinality(kernel.allocated)

(***************************************************************************)
(* The bulk OUT packets.                                                   *)
(***************************************************************************)
\* The bulk OUT transfers of the call on s, and the packet it has framed and
\* is sending.
OutPackets(s) ==
  {wire[s][i].bytes : i \in {j \in 1 .. Len(wire[s]) : wire[s][j].kind = "bulk_out"}}
    \cup (IF call[s].pc \in {"write_bulk_out", "read_bulk_out"}
            THEN {call[s].staged} ELSE {})

\* C24: in every DEV_DEP_MSG_OUT and REQUEST_DEV_DEP_MSG_IN header sent,
\* byte 2 is the 8-bit complement of byte 1 (the bTag), for every bTag
\* 1..255: the two add up to 255, bit by bit without carry.
C24_TagInverse ==
  \A p \in OutPackets(1) :
    /\ p[1] \in {1, 2}
    /\ p[2] \in 1 .. 255
    /\ p[3] \in 0 .. 255
    /\ p[2] + p[3] = 255

C24_Witness ==
  /\ call[1].op = "read"
  /\ Len(wire[1]) >= 1
  /\ wire[1][1].kind = "bulk_out"
  /\ wire[1][1].bytes[1] = 2
  /\ wire[1][1].bytes[2] = 255
  /\ wire[1][1].bytes[3] = 0

\* C25: every bulk OUT packet, of a write (each chunk, the newline removed
\* or not) and of a read, has a length that is a multiple of 4.
C25_LengthAligned == \A p \in OutPackets(1) : Len(p) % 4 = 0

C25_Witness ==
  /\ call[1].op = "write"
  /\ call[1].data = Text(2037, NEWLINE)
  /\ dev[1].rem_nl_on_write = USBTMC_ATTRIB_VAL_ON
  /\ Len(wire[1]) = 2
  /\ Len(wire[1][1].bytes) = 2048
  /\ Len(wire[1][2].bytes) = 12

\* C26: the TransferSize of every DEV_DEP_MSG_OUT packet is the number of
\* payload bytes the packet carries after its header (this_part, padding
\* apart), on the last chunk too when rem_nl_on_write removed a 0x0A.
C26_TransferSizeIsPayload ==
  call[1].pc = "write_bulk_out" =>
    /\ FromLE32(call[1].staged[5], call[1].staged[6], call[1].staged[7],
                call[1].staged[8]) = call[1].this_part
    /\ Len(call[1].staged) - 12 \in call[1].this_part .. call[1].this_part + 3

(***************************************************************************)
(* The tags of the abort requests.                                         *)
(***************************************************************************)
\* C27: when a read whose bulk IN transfer was submitted goes on to abort
\* it, the wValue of INITIATE_ABORT_BULK_IN is the bTag of the
\* REQUEST_DEV_DEP_MSG_IN header that read had sent.
C27_AbortInTag ==
  ( /\ call[1].op = "read"
    /\ call[1].pc = "abort_bulk_in_initiate" )
  => /\ call[1].req.bRequest = USBTMC_REQUEST_INITIATE_ABORT_BULK_IN
     /\ call[1].req.wValue = call[1].out_tag

\* C28: the tag an ABORT_BULK_OUT of a session carries is the bTag of that
\* session's own most recent bulk OUT transfer, whatever another session
\* has transferred in between.
C28_AbortTagOfOwnSession ==
  \A m \in Minors :
    ( /\ call[m].op = "abort_bulk_out"
      /\ call[m].pc = "abort_bulk_out_initiate"
      /\ call[m].prev.op = "write"
      /\ call[m].prev.out_tag # 0 )
    => call[m].req.wValue = call[m].prev.out_tag

(***************************************************************************)
(* The I/O buffer.                                                         *)
(***************************************************************************)
\* C29: while a call of a session is blocked in the transfer of the packet
\* it framed, the buffer holds that packet, and the bytes sent are those it
\* framed, whatever calls another session makes.
C29_BufferOwned ==
  \A m \in Minors :
    /\ call[m].pc = "write_bulk_out" =>
         Take(usbtmc_buffer, Len(call[m].staged)) = call[m].staged
    /\ ( /\ call[m].op = "write"
         /\ call[m].pc = "returned"
         /\ Len(wire[m]) = 1 )
       => wire[m][1].bytes = call[m].staged

(***************************************************************************)
(* The order of the requests of ABORT_BULK_OUT.                            *)
(***************************************************************************)
IsControl(e) == e.kind = "control"

\* The control requests the call on s has completed, in order.
Controls(s) == SelectSeq(wire[s], IsControl)

IsInitiateOut(e) ==
  /\ e.req.type = "class_endpoint"
  /\ e.req.bRequest = USBTMC_REQUEST_INITIATE_ABORT_BULK_OUT

IsCheckOut(e) ==
  /\ e.req.type = "class_endpoint"
  /\ e.req.bRequest = USBTMC_REQUEST_CHECK_ABORT_BULK_OUT_STATUS

IsClearHalt(e) ==
  /\ e.req.type = "standard_endpoint"
  /\ e.req.bRequest = USB_REQ_CLEAR_FEATURE
  /\ e.req.wValue = USB_ENDPOINT_HALT

Answered(e, status) == e.rv >= 0 /\ e.bytes[1] = status

\* C30: ABORT_BULK_OUT issues INITIATE_ABORT_BULK_OUT first; a CHECK only
\* after INITIATE answered SUCCESS and every CHECK before it PENDING;
\* CLEAR_FEATURE(ENDPOINT_HALT) on bulk_out last and only after a CHECK
\* answered SUCCESS; at most USBTMC_MAX_READS_TO_CLEAR_BULK_IN CHECKs; and
\* when the device still answers PENDING at the last of them the ioctl
\* returns an error (-EPERM when that CHECK itself was answered).
C30_AbortOutOrder ==
  LET c == Controls(1)
      f == call[1]
      seen == Len(wire[1]) < MaxWire
  IN
  /\ Len(c) >= 1 => IsInitiateOut(c[1])
  /\ \A i \in 2 .. Len(c) :
       /\ Answered(c[1], USBTMC_STATUS_SUCCESS)
       /\ (IsCheckOut(c[i]) \/ IsClearHalt(c[i]))
       /\ \A j \in 2 .. (i - 1) :
            \/ IsCheckOut(c[j]) /\ Answered(c[j], USBTMC_STATUS_PENDING)
            \/ j = i - 1 /\ IsClearHalt(c[i])
       /\ IsClearHalt(c[i]) =>
            /\ i >= 3
            /\ IsCheckOut(c[i - 1])
            /\ Answered(c[i - 1], USBTMC_STATUS_SUCCESS)
            /\ c[i].req.wIndex = dev[1].bulk_out
            /\ i = Len(c)
            /\ f.pc = "returned"
  /\ f.pc = "abort_bulk_out_check" =>
       /\ IsCheckOut(f)
       /\ f.n < USBTMC_MAX_READS_TO_CLEAR_BULK_IN
       /\ seen => /\ Len(c) = f.n + 1
                  /\ Answered(c[1], USBTMC_STATUS_SUCCESS)
  /\ f.pc = "abort_bulk_out_clear_halt" =>
       /\ IsClearHalt(f)
       /\ f.n <= USBTMC_MAX_READS_TO_CLEAR_BULK_IN
       /\ seen => /\ IsCheckOut(c[Len(c)])
                  /\ Answered(c[Len(c)], USBTMC_STATUS_SUCCESS)
  /\ ( /\ f.op = "abort_bulk_out"
       /\ f.n = USBTMC_MAX_READS_TO_CLEAR_BULK_IN
       /\ Peek(usbtmc_buffer, 0) = USBTMC_STATUS_PENDING )
     => /\ f.pc = "returned"
        /\ f.ret < 0

C30_Witness ==
  /\ call[1].op = "abort_bulk_out"
  /\ call[1].pc = "returned"
  /\ call[1].n = USBTMC_MAX_READS_TO_CLEAR_BULK_IN
  /\ call[1].ret = -EPERM
  /\ Peek(usbtmc_buffer, 0) = USBTMC_STATUS_PENDING
  /\ call[1].prev.op = "write"

(***************************************************************************)
(* ABORT_BULK_IN and CLEAR: the drains and the status checks.              *)
(***************************************************************************)
\* The step completes a transfer of the call on s, which its record takes.
Completes(s) == Len(wire'[s]) = Len(wire[s]) + 1

\* The transfer the step completes.
Completed(s) == wire'[s][Len(wire'[s])]

\* The step is a bulk read of a drain of ABORT_BULK_IN that succeeds.
DrainRead(s) ==
  /\ call[s].pc \in {"abort_bulk_in_drain", "abort_bulk_in_drain_again"}
  /\ Completes(s)
  /\ Completed(s).kind = "bulk_in"
  /\ Completed(s).rv >= 0

\* The step is a status check of ABORT_BULK_IN or CLEAR answered PENDING.
PendingAnswer(s) ==
  /\ call[s].pc \in {"abort_bulk_in_check", "clear_check"}
  /\ Completes(s)
  /\ Completed(s).rv >= 0
  /\ Completed(s).bytes[1] = USBTMC_STATUS_PENDING

\* Bit 0 of byte 1 of a status answer: the device has data to be read.
DataBit(e) == e.bytes[2] % 2 = 1

Draining(pc) ==
  pc \in {"abort_bulk_in_drain", "abort_bulk_in_drain_again", "clear_drain"}

\* C31: in ABORT_BULK_IN a bulk read of a drain (the first drain or one
\* entered after PENDING with data) that gets less than wMaxPacketSize
\* bytes ends the drain, and the procedure goes on to a status check; a
\* drain read that succeeds makes the procedure fail only when it was a
\* full packet and the cap of reads is reached.
C31_DrainStopsAtShortPacket ==
  [][\A s \in Minors :
       DrainRead(s) =>
         /\ Len(Completed(s).bytes) < call[s].max_size
              => call'[s].pc = "abort_bulk_in_check"
         /\ call'[s].pc = "returned"
              => /\ Len(Completed(s).bytes) = call[s].max_size
                 /\ call'[s].n >= USBTMC_MAX_READS_TO_CLEAR_BULK_IN]_vars

\* C32: in ABORT_BULK_IN and in CLEAR, a status check answered PENDING is
\* followed by a drain of the bulk IN endpoint exactly when bit 0 of the
\* answer's byte 1 is set, whatever the other bits (0x01, 0x03).
C32_DataBitDrains ==
  [][\A s \in Minors :
       PendingAnswer(s) => (Draining(call'[s].pc) <=> DataBit(Completed(s)))]_vars

IsInitiateClear(e) ==
  IsControl(e) /\ e.req.bRequest = USBTMC_REQUEST_INITIATE_CLEAR
               /\ e.req.type = "class_interface"

IsCheckClear(e) ==
  IsControl(e) /\ e.req.bRequest = USBTMC_REQUEST_CHECK_CLEAR_STATUS
               /\ e.req.type = "class_interface"

\* C33: the first request of CLEAR is INITIATE_CLEAR; CLEAR_FEATURE
\* (ENDPOINT_HALT) on bulk_out is its last, and follows a CHECK_CLEAR_STATUS
\* answered SUCCESS; a CHECK_CLEAR_STATUS answered PENDING with the data bit
\* set is not followed directly by one answered SUCCESS (a bulk read lies
\* between them); and CLEAR returns 0 once CLEAR_FEATURE has succeeded.
C33_ClearOrder ==
  \A s \in Minors :
    LET w == wire[s]
        f == call[s]
    IN
    (f.op = "clear" /\ Len(w) >= 1 /\ Len(w) < MaxWire) =>
      /\ IsInitiateClear(w[1])
      /\ \A i \in 1 .. Len(w) :
           IsClearHalt(w[i]) =>
             /\ i = Len(w)
             /\ w[i].req.wIndex = dev[s].bulk_out
             /\ i > 1 /\ IsCheckClear(w[i - 1]) /\ Answered(w[i - 1], USBTMC_STATUS_SUCCESS)
             /\ w[i].rv >= 0 => f.pc = "returned" /\ f.ret = 0
      /\ \A i \in 1 .. (Len(w) - 1) :
           ~ /\ IsCheckClear(w[i])
             /\ Answered(w[i], USBTMC_STATUS_PENDING)
             /\ DataBit(w[i])
             /\ IsCheckClear(w[i + 1])
             /\ Answered(w[i + 1], USBTMC_STATUS_SUCCESS)

\* C34: in CLEAR a CHECK_CLEAR_STATUS answered PENDING with the data bit
\* clear is followed by another CHECK_CLEAR_STATUS: the call does not
\* return on it.
C34_PendingPollsAgain ==
  [][\A s \in Minors :
       (PendingAnswer(s) /\ call[s].pc = "clear_check" /\ ~DataBit(Completed(s)))
         => call'[s].pc = "clear_check"]_vars

\* C35: when INITIATE_ABORT_BULK_IN is answered with a status other than
\* SUCCESS, ABORT_BULK_IN has returned with that request as its only
\* transfer: 0 for FAILED, -EPERM for any other status.
C35_InitiateDecides ==
  \A s \in Minors :
    LET w == wire[s]
        f == call[s]
    IN
    (/\ f.op = "abort_bulk_in"
     /\ Len(w) >= 1
     /\ w[1].rv >= 0
     /\ w[1].bytes[1] # USBTMC_STATUS_SUCCESS) =>
      /\ w[1].req.bRequest = USBTMC_REQUEST_INITIATE_ABORT_BULK_IN
      /\ Len(w) = 1
      /\ f.pc = "returned"
      /\ f.ret = IF w[1].bytes[1] = USBTMC_STATUS_FAILED THEN 0 ELSE -EPERM

C35_Witness ==
  /\ call[1].op = "abort_bulk_in"
  /\ call[1].pc = "returned"
  /\ call[1].ret = 0
  /\ Len(wire[1]) = 1
  /\ wire[1][1].rv >= 0
  /\ wire[1][1].bytes[1] = USBTMC_STATUS_FAILED

(***************************************************************************)
(* usbtmc_read: the request header and the sizes.                          *)
(***************************************************************************)
\* C36: every packet usbtmc_read sends is the 12 bytes of a
\* REQUEST_DEV_DEP_MSG_IN header: MsgID 2, the bTag and its complement, 0,
\* TransferSize = this_part-12-3 in little-endian order with this_part =
\* min(remaining, IOBUFFER-12-3) (remaining is the count of the call as long
\* as the loop runs), bmTransferAttributes 2 when term_char_enabled and 0
\* otherwise, the term_char, 0, 0.
C36_RequestHeader ==
  \A s \in Minors :
    call[s].op = "read" =>
      \A p \in OutPackets(s) :
        LET this_part == Min(call[s].count, USBTMC_SIZE_IOBUFFER - 12 - 3) IN
        /\ Len(p) = 12
        /\ p[1] = 2
        /\ p[4] = 0
        /\ << p[5], p[6], p[7], p[8] >> = LE32(this_part - 12 - 3)
        /\ p[9] = (IF dev[s].term_char_enabled # 0 THEN 2 ELSE 0)
        /\ p[10] = dev[s].term_char
        /\ p[11] = 0 /\ p[12] = 0

C36_Witness ==
  /\ call[1].op = "read"
  /\ call[1].count = 4096
  /\ dev[1].term_char_enabled = 1
  /\ dev[1].term_char = 59
  /\ Len(wire[1]) >= 3
  /\ wire[1][3].kind = "bulk_out"
  /\ wire[1][3].bytes = << 2, 2, 253, 0, 226, 7, 0, 0, 2, 59, 0, 0 >>

\* C37: the TransferSize of the REQUEST_DEV_DEP_MSG_IN header usbtmc_read
\* is sending, read as the unsigned 32-bit number the device decodes, is
\* at most the space left in the caller's buffer (count - done), for every
\* count >= 1.
C37_TransferSizeInRange ==
  \A s \in Minors :
    (call[s].op = "read" /\ call[s].pc = "read_bulk_out" /\ call[s].count >= 1) =>
      LET p == call[s].staged IN
      /\ p[8] < 128
      /\ FromLE32(p[5], p[6], p[7], p[8]) <= call[s].count - call[s].done

\* C38: usbtmc_read has copied at most count bytes to the caller, returns
\* at most count, and whenever it copied the n_characters bytes of an
\* answer they lay within the buffer: 12 + n_characters <= IOBUFFER.
C38_ReadWithinBounds ==
  \A s \in Minors :
    call[s].op = "read" =>
      /\ Len(call[s].ubuf) <= call[s].count
      /\ call[s].pc = "returned" => call[s].ret <= call[s].count
      /\ \A i \in 1 .. Len(wire[s]) :
           (wire[s][i].kind = "bulk_in" /\ wire[s][i].rv >= 0) =>
             12 + NCharacters(wire[s][i].bytes) <= USBTMC_SIZE_IOBUFFER

(***************************************************************************)
(* ABORT_BULK_IN and CLEAR: termination.                                   *)
(***************************************************************************)
\* C39: when every request returns, a call of ABORT_BULK_IN or CLEAR that
\* is in progress does return.
C39_Terminates ==
  \A s \in Minors :
    (call[s].op \in {"abort_bulk_in", "clear"} /\ call[s].pc # "returned")
      ~> (call[s].pc = "returned")

====
